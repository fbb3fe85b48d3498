------------------------------ MODULE FirstBoot ------------------------------
(***************************************************************************)
(* The first-boot wizard (ubuntu_init) as a client of provd: the identity  *)
(* page creates the account, the last page logs in and closes the window.  *)
(*                                                                         *)
(* The identity page neither disables its fields nor its Back button while *)
(* CreateUser is under way, and the service remembers an identity before   *)
(* it is created.  An answer is awaited by the Next button that asked for  *)
(* it: a button that has left the screen ignores it.                       *)
(***************************************************************************)
EXTENDS UserService

CONSTANTS
  NoIdentity,   \* no identity typed or remembered
  Nothing       \* the Next button of the identity page waits for nothing

VARIABLES
  page,         \* see Pages
  typed,        \* the fields of IdentityModel
  validation,   \* usernameValidation == OK
  checks,       \* names whose validation is requested and not answered
  saved,        \* _identity of ProvdIdentityService
  awaiting,     \* the request the Next button waits for
  session       \* what became of the desktop session

wizardVars == <<page, typed, validation, checks, saved, awaiting, session>>
vars == <<serviceVars, wizardVars>>

\* "earlier" is the page before the identity page, "pro" stands for the pages
\* on which Back leads to the identity page, "later" for those without Back
\* up to the last one; "launching" is the last page after Next.
Pages == {"earlier", "identity", "pro", "later", "launching", "closed"}
Past == {"pro", "later", "launching", "closed"}

\* The state of the Next button after an exception of its onNext.
Failed == 0

Sessions == {"none", "asked", "opened", "refused", "error"}

Init ==
  /\ ServiceInit
  /\ page = "earlier"
  /\ typed = NoIdentity
  /\ validation = TRUE
  /\ checks = {}
  /\ saved = NoIdentity
  /\ awaiting = Nothing
  /\ session = "none"

------------------------------------------------------------------------------
\* Moving between pages.  Every page is entered with a fresh or released button.
Move(from, to) ==
  /\ page = from
  /\ page' = to
  /\ awaiting' = Nothing

\* The fields react at any time.  A change of the name asks for a validation.
Type(identity) ==
  /\ page = "identity"
  /\ identity # typed
  /\ typed' = identity
  /\ checks' = checks \cup
       (IF typed # NoIdentity /\ typed.user = identity.user THEN {} ELSE {identity.user})
  /\ UNCHANGED <<serviceVars, page, validation, saved, awaiting, session>>

\* The answers to validate() come in any order; the last one counts, whatever
\* name it is about.  A failure leaves the result as it is.
ValidateUsername(u) ==
  /\ u \in checks
  /\ checks' = checks \ {u}
  /\ \/ validation' = ~accounts[u].made
     \/ Faults /\ UNCHANGED validation
  /\ UNCHANGED <<serviceVars, page, typed, saved, awaiting, session>>

CanNext ==
  /\ page = "identity"
  /\ awaiting = Nothing
  /\ typed # NoIdentity
  /\ validation

\* setIdentity: a new identity is remembered and sent to provd.
SetIdentity ==
  /\ CanNext
  /\ saved # typed
  /\ saved' = typed
  /\ Begin(typed)
  /\ awaiting' = Len(calls')
  /\ UNCHANGED <<page, typed, validation, checks, session>>

\* Mutant: only the user name is compared with the remembered identity.
KeepIdentityOfName ==
  /\ CanNext
  /\ saved # NoIdentity /\ saved.user = typed.user
  /\ saved' = typed
  /\ Move("identity", "pro")
  /\ UNCHANGED <<serviceVars, typed, validation, checks, session>>

\* setIdentity: a remembered identity counts as created.
KeepIdentity ==
  /\ CanNext
  /\ saved = typed
  /\ Move("identity", "pro")
  /\ UNCHANGED <<serviceVars, typed, validation, checks, saved, session>>

\* The answer of createUser for the button that waits for it.  After an
\* exception the button stays activated, and Next is not available any more.
Answer ==
  /\ page = "identity"
  /\ awaiting \in DOMAIN calls
  /\ \/ calls[awaiting].pc = "ok" /\ Move("identity", "pro")
     \/ calls[awaiting].pc = "failed" /\ awaiting' = Failed /\ UNCHANGED page
  /\ UNCHANGED <<serviceVars, typed, validation, checks, saved, session>>

\* The other pages and the Back buttons.
Walk ==
  /\ \/ Move("earlier", "identity")
     \/ Move("identity", "earlier")
     \/ Move("pro", "identity")
     \/ Move("pro", "later")
  /\ UNCHANGED <<serviceVars, typed, validation, checks, saved, session>>

\* Next on the last page: the session is asked for with the remembered identity.
LaunchDesktopSession ==
  /\ Move("later", "launching")
  /\ session' = "asked"
  /\ UNCHANGED <<serviceVars, typed, validation, checks, saved>>

\* GDM verifies the user (Problem or SessionOpened); an error of any kind is
\* only logged.
Verified == accounts[saved.user].made /\ accounts[saved.user].secret = saved.secret

SessionAnswer ==
  /\ session = "asked"
  /\ session' \in (IF Verified THEN {"opened"} ELSE {"refused"}) \cup (IF Faults THEN {"error"} ELSE {})
  /\ UNCHANGED <<serviceVars, page, typed, validation, checks, saved, awaiting>>

\* Mutant: a failed launch is thrown before the window closes.
CloseOpened ==
  /\ session = "opened"
  /\ Move("launching", "closed")
  /\ UNCHANGED <<serviceVars, typed, validation, checks, saved, session>>

Close ==
  /\ session \notin {"none", "asked"}
  /\ Move("launching", "closed")
  /\ UNCHANGED <<serviceVars, typed, validation, checks, saved, session>>

ServeCall == \E c \in DOMAIN calls : Serve(c) /\ UNCHANGED wizardVars

Next ==
  \/ \E identity \in Requests : Type(identity)
  \/ \E u \in Users : ValidateUsername(u)
  \/ SetIdentity \/ KeepIdentity \/ Answer \/ Walk
  \/ LaunchDesktopSession \/ SessionAnswer \/ Close
  \/ ServeCall

\* provd, GDM and the event loop go on; the user owes nothing.
Fairness ==
  /\ WF_vars(ServeCall)
  /\ WF_vars(Answer)
  /\ WF_vars(SessionAnswer)
  /\ WF_vars(Close)

Spec == Init /\ [][Next]_vars /\ Fairness

------------------------------------------------------------------------------
TypeOK ==
  /\ ServiceTypeOK
  /\ page \in Pages
  /\ typed \in Requests \cup {NoIdentity}
  /\ validation \in BOOLEAN
  /\ checks \subseteq Users
  /\ saved \in Requests \cup {NoIdentity}
  /\ awaiting \in {Nothing, Failed} \cup DOMAIN calls
  /\ session \in Sessions

\* Whoever is past the identity page with no request under way and none
\* failed has the account of the identity that the last page will log in
\* with: going back, changing a field and coming again does not leave the
\* wizard with an identity that was never sent (setIdentity, launchDesktopSession).
LoginHasAccount ==
  (page \in Past /\ \A c \in DOMAIN calls : calls[c].pc = "ok")
     => Verified

\* The last Next closes the window, whatever provd and GDM answer.
LaunchEnds == page = "launching" ~> page = "closed"

\* What save() says of itself: "Saves the identity data to the server".  When
\* the wizard has moved on and no request is under way, the account exists.
IdentityIsSaved ==
  (page \in Past /\ Idle) => accounts[saved.user] = Complete(saved)
=============================================================================
