----------------------------- MODULE UserService -----------------------------
(***************************************************************************)
(* The user service of provd: CreateUser makes an account in seven calls   *)
(* on the system bus and takes them back when one of them fails.  The gRPC *)
(* server runs every request in a goroutine of its own, so that requests   *)
(* interleave between their calls.  What a call on the bus does is         *)
(* external: the accounts service and hostnamed carry it out, refuse it,   *)
(* or carry it out and answer with an error.                               *)
(***************************************************************************)
EXTENDS Naturals, Sequences

CONSTANTS
  Users,        \* user names
  Secrets,      \* passwords
  HostNames,
  InitialHost,  \* the host name of the image
  Existing,     \* the names that are in use before the wizard starts
  Requests,     \* what a client asks for: [user, secret, host]
  MaxCalls,     \* bound on the number of requests
  Faults,       \* whether calls on the bus fail
  NoSecret      \* the password of an account that has none yet

Request == [user: Users, secret: Secrets, host: HostNames]

ASSUME RequestsAssumption ==
  /\ Requests \subseteq Request
  /\ Existing \subseteq Users
  /\ InitialHost \in HostNames
  /\ NoSecret \notin Secrets
  /\ Faults \in BOOLEAN
  /\ MaxCalls \in Nat

VARIABLES
  accounts,   \* the accounts of the accounts service
  hostname,   \* the static host name of hostnamed
  calls,      \* every request so far, in the order of arrival
  overlapped  \* whether two requests were ever under way together (history)

serviceVars == <<accounts, hostname, calls, overlapped>>

------------------------------------------------------------------------------
NoAccount == [made |-> FALSE, secret |-> NoSecret, login |-> FALSE]
NewAccount == [NoAccount EXCEPT !.made = TRUE]
Complete(request) == [made |-> TRUE, secret |-> request.secret, login |-> TRUE]

Account == [made: BOOLEAN, secret: Secrets \cup {NoSecret}, login: BOOLEAN]

\* Where a request is in CreateUser: before one of its calls on the bus, in
\* the deferred rollback, or over.
Steps == {"read", "create", "password", "uid", "login", "host"}
Rollback == {"compare", "restore", "delete"}
Over == {"ok", "failed"}

\* One execution of CreateUser with its local variables: initial is the host
\* name read first, uid says whether userID is known.  torn is history: a
\* step of the rollback has reported an error.
Call == [request: Requests, pc: Steps \cup Rollback \cup Over,
         initial: HostNames, uid: BOOLEAN, torn: BOOLEAN]

UnderWay(c) == calls[c].pc \notin Over

Idle == \A c \in DOMAIN calls : ~UnderWay(c)

ServiceInit ==
  /\ accounts = [u \in Users |-> IF u \in Existing THEN NewAccount ELSE NoAccount]
  /\ hostname = InitialHost
  /\ calls = <<>>
  /\ overlapped = FALSE

------------------------------------------------------------------------------
Go(c, pc) == calls' = [calls EXCEPT ![c].pc = pc]

\* A request arrives.  Its user, real name and host name are never empty:
\* the page enables its button for valid input only.
Begin(request) ==
  /\ Len(calls) < MaxCalls
  /\ calls' = Append(calls, [request |-> request, pc |-> "read", initial |-> InitialHost,
                             uid |-> FALSE, torn |-> FALSE])
  /\ overlapped' = (overlapped \/ ~Idle)
  /\ UNCHANGED <<accounts, hostname>>

\* Mutant: the host name is read once, when the service starts.
ReadHostNameOnce(c) ==
  /\ calls[c].pc = "read"
  /\ \/ Go(c, "create")
     \/ Faults /\ Go(c, "failed")
  /\ UNCHANGED <<accounts, hostname, overlapped>>

\* The current host name, for the rollback.  A failure returns before the
\* rollback is deferred.
ReadHostName(c) ==
  /\ calls[c].pc = "read"
  /\ \/ calls' = [calls EXCEPT ![c].pc = "create", ![c].initial = hostname]
     \/ Faults /\ Go(c, "failed")
  /\ UNCHANGED <<accounts, hostname, overlapped>>

\* One call on the bus for account u: its new value, and where the request
\* goes on.  An error leads to the rollback, whether the call had its effect
\* or not.
SetAccount(c, account, next) ==
  /\ \/ /\ accounts' = [accounts EXCEPT ![calls[c].request.user] = account]
        /\ Go(c, next)
     \/ /\ Faults
        /\ accounts' = [accounts EXCEPT ![calls[c].request.user] = account]
        /\ Go(c, "compare")
     \/ /\ Faults
        /\ Go(c, "compare")
        /\ UNCHANGED accounts
  /\ UNCHANGED <<hostname, overlapped>>

\* The accounts service refuses a name that is in use.
CreateAccount(c) ==
  /\ calls[c].pc = "create"
  /\ ~accounts[calls[c].request.user].made
  /\ SetAccount(c, NewAccount, "password")

\* Mutant: a name in use is taken for the account of an earlier attempt.
RefuseAccountAdopts(c) ==
  /\ calls[c].pc = "create"
  /\ accounts[calls[c].request.user].made
  /\ Go(c, "password")
  /\ UNCHANGED <<accounts, hostname, overlapped>>

RefuseAccount(c) ==
  /\ calls[c].pc = "create"
  /\ accounts[calls[c].request.user].made
  /\ Go(c, "compare")
  /\ UNCHANGED <<accounts, hostname, overlapped>>

\* hashPassword and SetPassword: a failing hash is a call without effect.
SetPassword(c) ==
  /\ calls[c].pc = "password"
  /\ SetAccount(c, [accounts[calls[c].request.user] EXCEPT !.secret = calls[c].request.secret], "uid")

\* From here on the rollback deletes the account.
ReadUid(c) ==
  /\ calls[c].pc = "uid"
  /\ \/ calls' = [calls EXCEPT ![c].pc = "login", ![c].uid = TRUE]
     \/ Faults /\ Go(c, "compare")
  /\ UNCHANGED <<accounts, hostname, overlapped>>

SetAutomaticLogin(c) ==
  /\ calls[c].pc = "login"
  /\ SetAccount(c, [accounts[calls[c].request.user] EXCEPT !.login = TRUE], "host")

SetStaticHostname(c) ==
  /\ calls[c].pc = "host"
  /\ \/ hostname' = calls[c].request.host /\ Go(c, "ok")
     \/ Faults /\ hostname' = calls[c].request.host /\ Go(c, "compare")
     \/ Faults /\ Go(c, "compare") /\ UNCHANGED hostname
  /\ UNCHANGED <<accounts, overlapped>>

------------------------------------------------------------------------------
\* Mutant: the rollback deletes the account of the name asked for.
AfterHostDeletes(c) == "delete"

\* The deferred function.  The account is deleted once its uid is known.
AfterHost(c) == IF calls[c].uid THEN "delete" ELSE "failed"

\* Mutant: an unchanged host name ends the rollback.
CompareHostNameReturns(c) ==
  /\ calls[c].pc = "compare"
  /\ \/ Go(c, IF hostname = calls[c].initial THEN "failed" ELSE "restore")
     \/ Faults /\ calls' = [calls EXCEPT ![c].pc = "failed", ![c].torn = TRUE]
  /\ UNCHANGED <<accounts, hostname, overlapped>>

\* The current host name; without it the rollback gives up.
CompareHostName(c) ==
  /\ calls[c].pc = "compare"
  /\ \/ Go(c, IF hostname = calls[c].initial THEN AfterHost(c) ELSE "restore")
     \/ Faults /\ calls' = [calls EXCEPT ![c].pc = "failed", ![c].torn = TRUE]
  /\ UNCHANGED <<accounts, hostname, overlapped>>

\* A failure is only logged, whether the call had its effect or not.
RestoreHostName(c) ==
  /\ calls[c].pc = "restore"
  /\ \/ hostname' = calls[c].initial /\ Go(c, AfterHost(c))
     \/ /\ Faults
        /\ calls' = [calls EXCEPT ![c].pc = AfterHost(c), ![c].torn = TRUE]
        /\ hostname' \in {hostname, calls[c].initial}
  /\ UNCHANGED <<accounts, overlapped>>

DeleteAccount(c) ==
  /\ calls[c].pc = "delete"
  /\ \/ /\ accounts' = [accounts EXCEPT ![calls[c].request.user] = NoAccount]
        /\ Go(c, "failed")
     \/ /\ Faults
        /\ calls' = [calls EXCEPT ![c].pc = "failed", ![c].torn = TRUE]
        /\ \/ accounts' = [accounts EXCEPT ![calls[c].request.user] = NoAccount]
           \/ UNCHANGED accounts
  /\ UNCHANGED <<hostname, overlapped>>

Serve(c) ==
  \/ ReadHostName(c) \/ CreateAccount(c) \/ RefuseAccount(c) \/ SetPassword(c)
  \/ ReadUid(c) \/ SetAutomaticLogin(c) \/ SetStaticHostname(c)
  \/ CompareHostName(c) \/ RestoreHostName(c) \/ DeleteAccount(c)

ServiceNext ==
  \/ \E request \in Requests : Begin(request)
  \/ \E c \in DOMAIN calls : Serve(c)

\* What any client of the service sees.
ServiceSpec == ServiceInit /\ [][ServiceNext]_serviceVars

------------------------------------------------------------------------------
ServiceTypeOK ==
  /\ accounts \in [Users -> Account]
  /\ hostname \in HostNames
  /\ calls \in Seq(Call)
  /\ overlapped \in BOOLEAN

\* A request that has reported success keeps its account, with its password
\* and its login setting, and nobody touches the accounts that were there
\* before: no rollback of another request takes them away, however the
\* requests interleave and whatever fails (CreateUser and its deferred
\* function).
AccountsAreKept ==
  /\ \A c \in DOMAIN calls :
       calls[c].pc = "ok" => accounts[calls[c].request.user] = Complete(calls[c].request)
  /\ \A u \in Existing : accounts[u] = NewAccount

\* When all requests are over, the accounts are those of the image and of the
\* requests that succeeded.  The exceptions are the gaps of the rollback: a
\* request that failed before it knew the uid, or whose rollback failed.
NoOrphans ==
  Idle => \A u \in Users \ Existing :
            accounts[u].made =>
              \E c \in DOMAIN calls :
                /\ calls[c].request.user = u
                /\ calls[c].pc = "ok" \/ ~calls[c].uid \/ calls[c].torn

\* Without overlapping requests and failed rollbacks the host name is the one
\* of the last request that succeeded, or of the image: a failed request
\* restores it, also when hostnamed has set it and then reported an error.
Succeeded == {c \in DOMAIN calls : calls[c].pc = "ok"}

HostNameRestored ==
  (Idle /\ ~overlapped /\ \A c \in DOMAIN calls : ~calls[c].torn) =>
     IF Succeeded = {} THEN hostname = InitialHost
     ELSE \E c \in Succeeded : /\ \A d \in Succeeded : d <= c
                               /\ hostname = calls[c].request.host

------------------------------------------------------------------------------
(* The specification that a client may go by *)

\* Whether request c has made the account of its name and still answers for it.
Owner(c) ==
  \/ calls[c].pc \in {"password", "uid"}
  \/ calls[c].uid /\ calls[c].pc # "failed"

\* How far a request is for its client.
Status(c) ==
  CASE calls[c].pc = "ok" -> "granted"
    [] calls[c].pc = "failed" -> "failed"
    [] calls[c].pc \in {"read", "create"} -> "asked"
    [] OTHER -> IF Owner(c) THEN "holding" ELSE "failing"

\* The name of a request that holds it or was granted it is taken; an account
\* that nobody answers for is left behind.
NameState(u) ==
  CASE u \in Existing -> "image"
    [] u \notin Existing /\ ~accounts[u].made -> "free"
    [] OTHER -> IF \E c \in DOMAIN calls : calls[c].request.user = u /\ Owner(c)
                THEN "taken" ELSE "left"

Promised(u) ==
  u \in Existing \/ \E c \in DOMAIN calls : calls[c].request.user = u /\ calls[c].pc = "ok"

BookNames == [u \in Users |-> NameState(u)]
BookRequests == [c \in DOMAIN calls |-> [request |-> calls[c].request, status |-> Status(c)]]
BookAccounts == [u \in Users |-> IF Promised(u) THEN accounts[u] ELSE NoAccount]

Book == INSTANCE Accounts WITH
  Image    <- Existing,
  Bare     <- NoAccount,
  names    <- BookNames,
  requests <- BookRequests,
  book     <- BookAccounts

\* The calls on the bus and the deferred rollback of CreateUser add up to taking a
\* name, being granted it and giving it back: however requests overlap, a name
\* has one holder, what was granted never changes, and without a fault nothing is
\* left behind.
AccountsSpec == Book!Spec
=============================================================================
