------------------------------ MODULE Accounts ------------------------------
(***************************************************************************)
(* What provd promises of accounts, to any number of clients whose          *)
(* requests overlap: a request has its name to itself from the moment it    *)
(* is taken, it is granted as a whole and for good, and when it fails the    *)
(* name is free again, or, only if a call has failed, left behind with an    *)
(* account that nobody was promised.                                        *)
(*                                                                          *)
(* UserService implements this specification.                               *)
(***************************************************************************)
EXTENDS Naturals, Sequences

CONSTANTS
  Users,      \* user names
  Image,      \* the names that are in use from the start
  Requests,   \* what a client asks for: [user, secret, host]
  Faults,     \* whether calls fail
  Bare        \* an account nobody may log in to

VARIABLES
  names,      \* of each name: free, taken, left, or of the image
  requests,   \* what was asked, in order, and how far it is
  book        \* the accounts that somebody may rely on

vars == <<names, requests, book>>

Init ==
  /\ names = [u \in Users |-> IF u \in Image THEN "image" ELSE "free"]
  /\ requests = <<>>
  /\ book = [u \in Users |-> IF u \in Image THEN [Bare EXCEPT !.made = TRUE] ELSE Bare]

Is(c, status) == requests[c].status = status
Becomes(c, status) == requests' = [requests EXCEPT ![c].status = status]

Name(c) == names[requests[c].request.user]
NameBecomes(c, state) == names' = [names EXCEPT ![requests[c].request.user] = state]

Ask(request) ==
  /\ requests' = Append(requests, [request |-> request, status |-> "asked"])
  /\ UNCHANGED <<names, book>>

Take(c) ==
  /\ Is(c, "asked") /\ Name(c) = "free"
  /\ Becomes(c, "holding") /\ NameBecomes(c, "taken")
  /\ UNCHANGED book

\* A name that is free is only refused for a fault.
Refuse(c) ==
  /\ Is(c, "asked") /\ (Name(c) # "free" \/ Faults)
  /\ Becomes(c, "failing") \/ Becomes(c, "failed")
  /\ UNCHANGED <<names, book>>

\* The name is in use, and the request does not know its account.
Lose(c) ==
  /\ Faults
  /\ (Is(c, "asked") /\ Name(c) = "free") \/ Is(c, "holding")
  /\ Becomes(c, "failing") /\ NameBecomes(c, "left")
  /\ UNCHANGED book

\* A request that holds its name gives it back, unless this fails.
Undo(c) ==
  /\ Faults /\ Is(c, "holding")
  /\ Becomes(c, "failed")
  /\ NameBecomes(c, "free") \/ NameBecomes(c, "left")
  /\ UNCHANGED book

Fail(c) ==
  /\ Is(c, "failing")
  /\ Becomes(c, "failed")
  /\ UNCHANGED <<names, book>>

\* The account appears at once, with everything that was asked for.
Grant(c) ==
  /\ Is(c, "holding")
  /\ Becomes(c, "granted")
  /\ book' = [book EXCEPT ![requests[c].request.user] =
                [made |-> TRUE, secret |-> requests[c].request.secret, login |-> TRUE]]
  /\ UNCHANGED names

Next ==
  \/ \E request \in Requests : Ask(request)
  \/ \E c \in DOMAIN requests :
       Take(c) \/ Refuse(c) \/ Lose(c) \/ Undo(c) \/ Fail(c) \/ Grant(c)

Spec == Init /\ [][Next]_vars
=============================================================================
