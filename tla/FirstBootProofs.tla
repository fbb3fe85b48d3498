--------------------------- MODULE FirstBootProofs ---------------------------
(***************************************************************************)
(* The accounts that provd has reported stay, for any number of            *)
(* interleaved requests and whatever fails on the bus.  The argument: a     *)
(* request owns the account of its name from its creation until its        *)
(* rollback is over, a name has one owner at most, and only an owner       *)
(* touches the account.  The wizard is a client of this service.           *)
(***************************************************************************)
EXTENDS FirstBoot, SequenceTheorems, TLAPS

\* userID is known after the step that reads it, and the rollback only deletes
\* when it is.
UidOf(call) ==
  /\ call.pc \in {"read", "create", "password", "uid"} => ~call.uid
  /\ call.pc \in {"login", "host", "delete", "ok"} => call.uid

\* What the account has got when the request is at its step.
MadeSoFar(call, account) ==
  /\ call.pc \in {"uid", "login", "host", "ok"} => account.secret = call.request.secret
  /\ call.pc \in {"host", "ok"} => account.login

NameOf(c) == calls[c].request.user

UidOK == \A c \in DOMAIN calls : UidOf(calls[c])

ProgressOK == \A c \in DOMAIN calls : MadeSoFar(calls[c], accounts[NameOf(c)])

OwnersOK ==
  \A c \in DOMAIN calls : Owner(c) =>
    /\ accounts[NameOf(c)].made
    /\ NameOf(c) \notin Existing
    /\ \A d \in DOMAIN calls : (Owner(d) /\ NameOf(d) = NameOf(c)) => d = c

ImageOK == \A u \in Existing : accounts[u] = NewAccount

IInv == ServiceTypeOK /\ UidOK /\ ProgressOK /\ OwnersOK /\ ImageOK

\* The step replaces the entry of c by call, and no other.
Becomes(c, call) ==
  /\ calls' \in Seq(Call)
  /\ DOMAIN calls' = DOMAIN calls
  /\ calls'[c] = call
  /\ \A d \in DOMAIN calls : d # c => calls'[d] = calls[d]

------------------------------------------------------------------------------
\* An update of one entry is what Becomes says.
LEMMA UpdateBecomes ==
  ASSUME calls \in Seq(Call), NEW c \in DOMAIN calls, NEW call \in Call,
         calls' = [calls EXCEPT ![c] = call]
  PROVE  Becomes(c, call)
<1>1. c \in 1..Len(calls) /\ DOMAIN calls = 1..Len(calls)
  BY LenProperties
<1>2. calls' \in Seq(Call) /\ Len(calls') = Len(calls)
  BY <1>1, ExceptSeq
<1>3. DOMAIN calls' = DOMAIN calls
  OBVIOUS
<1>4. calls'[c] = call /\ \A d \in DOMAIN calls : d # c => calls'[d] = calls[d]
  OBVIOUS
<1> QED BY <1>2, <1>3, <1>4 DEF Becomes

\* Entries are calls of users.
LEMMA EntryIsCall ==
  ASSUME calls \in Seq(Call), NEW c \in DOMAIN calls
  PROVE  calls[c] \in Call /\ calls[c].request \in Request /\ NameOf(c) \in Users
<1>1. calls[c] \in Call
  BY ElementOfSeq, LenProperties
<1>2. calls[c].request \in Request
  BY <1>1, RequestsAssumption DEF Call
<1> QED BY <1>1, <1>2 DEF NameOf, Request

\* Moving the program counter of a request.
LEMMA GoBecomes ==
  ASSUME calls \in Seq(Call), NEW c \in DOMAIN calls,
         NEW pc \in Steps \cup Rollback \cup Over, Go(c, pc)
  PROVE  Becomes(c, [calls[c] EXCEPT !.pc = pc])
<1>1. calls[c] \in Call
  BY ElementOfSeq, LenProperties
<1>2. [calls[c] EXCEPT !.pc = pc] \in Call
  BY <1>1 DEF Call
<1> QED BY <1>2, UpdateBecomes DEF Go

\* A step of one request keeps the invariant if it touches only its own
\* account, and this only as its owner or by making it.
LEMMA OneRequest ==
  ASSUME IInv, NEW c \in DOMAIN calls, NEW call \in Call,
         Becomes(c, call), call.request = calls[c].request,
         accounts' \in [Users -> Account],
         \A u \in Users : u # NameOf(c) => accounts'[u] = accounts[u],
         accounts'[NameOf(c)] # accounts[NameOf(c)] => Owner(c) \/ ~accounts[NameOf(c)].made,
         Owner(c)' => accounts'[NameOf(c)].made /\ (Owner(c) \/ ~accounts[NameOf(c)].made),
         UidOf(call), MadeSoFar(call, accounts'[NameOf(c)]),
         hostname' \in HostNames, overlapped' \in BOOLEAN
  PROVE  IInv'
<1>1. \A d \in DOMAIN calls : calls[d] \in Call /\ NameOf(d) \in Users
  BY EntryIsCall DEF IInv, ServiceTypeOK
<1>2. ServiceTypeOK'
  BY DEF ServiceTypeOK, Becomes
<1>3. \A d \in DOMAIN calls : NameOf(d)' = NameOf(d)
  BY DEF Becomes, NameOf
<1>4. \A d \in DOMAIN calls : d # c => Owner(d)' = Owner(d)
  BY DEF Becomes, Owner
<1>5. NameOf(c) \in Existing => accounts[NameOf(c)].made /\ ~Owner(c)
  BY DEF IInv, ImageOK, OwnersOK, NewAccount, NoAccount
<1>6. UidOK'
  BY DEF UidOK, Becomes, IInv
<1>7. ImageOK'
  BY <1>5, <1>1, RequestsAssumption DEF IInv, ImageOK, NewAccount, NoAccount
<1>8. ASSUME NEW d \in DOMAIN calls, d # c, Owner(d)
      PROVE  accounts'[NameOf(d)] = accounts[NameOf(d)] /\ (NameOf(d) = NameOf(c) => ~Owner(c) /\ accounts[NameOf(c)].made)
  BY <1>8, <1>1 DEF IInv, OwnersOK
<1>9. ProgressOK'
  <2> SUFFICES ASSUME NEW d \in DOMAIN calls, d # c
               PROVE  MadeSoFar(calls'[d], accounts'[NameOf(d)])
    BY <1>3 DEF ProgressOK, Becomes
  <2>1. MadeSoFar(calls[d], accounts[NameOf(d)]) /\ UidOf(calls[d])
    BY DEF IInv, ProgressOK, UidOK
  <2>2. CASE Owner(d)
    BY <2>1, <2>2, <1>8 DEF Becomes
  <2>3. CASE ~Owner(d)
    BY <2>1, <2>3 DEF Becomes, MadeSoFar, Owner, UidOf
  <2> QED BY <2>2, <2>3
<1>10. OwnersOK'
  <2> SUFFICES ASSUME NEW d \in DOMAIN calls, Owner(d)'
               PROVE  /\ accounts'[NameOf(d)].made
                      /\ NameOf(d) \notin Existing
                      /\ \A e \in DOMAIN calls : (Owner(e)' /\ NameOf(e) = NameOf(d)) => e = d
    BY <1>3 DEF OwnersOK, Becomes
  <2>1. CASE d = c
    BY <2>1, <1>4, <1>5, <1>8 DEF IInv, OwnersOK
  <2>2. CASE d # c
    BY <2>2, <1>4, <1>8 DEF IInv, OwnersOK
  <2> QED BY <2>1, <2>2
<1> QED BY <1>2, <1>6, <1>7, <1>9, <1>10 DEF IInv
------------------------------------------------------------------------------
\* Steps that only move the program counter: from before the account exists or
\* from a step without effect on it.
LEMMA MoveOnly ==
  ASSUME IInv, NEW c \in DOMAIN calls, NEW pc \in Steps \cup Rollback \cup Over, Go(c, pc),
         UidOf([calls[c] EXCEPT !.pc = pc]),
         MadeSoFar([calls[c] EXCEPT !.pc = pc], accounts[NameOf(c)]),
         pc \notin {"password", "uid"},
         calls[c].pc = "failed" => pc = "failed",
         UNCHANGED <<accounts, overlapped>>, hostname' \in HostNames
  PROVE  IInv'
<1> DEFINE call == [calls[c] EXCEPT !.pc = pc]
<1>1. calls \in Seq(Call) /\ calls[c] \in Call
  BY EntryIsCall DEF IInv, ServiceTypeOK
<1>2. call \in Call /\ call.request = calls[c].request /\ call.uid = calls[c].uid /\ call.pc = pc
  BY <1>1 DEF Call
<1>3. Becomes(c, call)
  BY <1>1, GoBecomes
<1>4. Owner(c)' => Owner(c)
  BY <1>2, <1>3 DEF Becomes, Owner
<1>5. Owner(c) => accounts[NameOf(c)].made
  BY DEF IInv, OwnersOK
<1>6. UidOf(call) /\ MadeSoFar(call, accounts'[NameOf(c)])
  OBVIOUS
<1> HIDE DEF call
<1> QED BY <1>2, <1>3, <1>4, <1>5, <1>6, OneRequest DEF IInv, ServiceTypeOK

\* An effect on the account, and the step after it.
LEMMA AccountStep ==
  ASSUME IInv, NEW c \in DOMAIN calls, NEW account \in Account,
         NEW next \in {"password", "uid", "host", "compare"}, Go(c, next),
         account.made,
         (calls[c].pc = "create" /\ ~accounts[NameOf(c)].made) \/ calls[c].pc \in {"password", "login"},
         accounts' = [accounts EXCEPT ![NameOf(c)] = account],
         UidOf([calls[c] EXCEPT !.pc = next]),
         MadeSoFar([calls[c] EXCEPT !.pc = next], account),
         UNCHANGED <<hostname, overlapped>>
  PROVE  IInv'
<1> DEFINE call == [calls[c] EXCEPT !.pc = next]
<1>1. calls \in Seq(Call) /\ calls[c] \in Call /\ NameOf(c) \in Users /\ accounts \in [Users -> Account]
  BY EntryIsCall DEF IInv, ServiceTypeOK
<1>2. call \in Call /\ call.request = calls[c].request /\ call.uid = calls[c].uid /\ call.pc = next
  BY <1>1 DEF Call, Steps, Rollback
<1>3. Becomes(c, call)
  BY <1>1, GoBecomes DEF Steps, Rollback
<1>4. /\ accounts' \in [Users -> Account]
      /\ accounts'[NameOf(c)] = account
      /\ \A u \in Users : u # NameOf(c) => accounts'[u] = accounts[u]
  BY <1>1
<1>5. Owner(c) \/ ~accounts[NameOf(c)].made
  BY DEF IInv, UidOK, UidOf, Owner
<1>6. UidOf(call) /\ MadeSoFar(call, accounts'[NameOf(c)])
  BY <1>4
<1> HIDE DEF call
<1> QED BY <1>2, <1>3, <1>4, <1>5, <1>6, OneRequest DEF IInv, ServiceTypeOK

\* The record of the request itself is what the next lemmas look at.
LEMMA Entry ==
  ASSUME IInv, NEW c \in DOMAIN calls
  PROVE  /\ calls[c] \in Call
         /\ UidOf(calls[c])
         /\ MadeSoFar(calls[c], accounts[NameOf(c)])
         /\ NameOf(c) \in Users
         /\ accounts[NameOf(c)] \in Account
         /\ calls[c].request \in Request
  BY EntryIsCall DEF IInv, ServiceTypeOK, UidOK, ProgressOK

\* The accounts service makes the account, sets its password and its login.
LEMMA MakingStep ==
  ASSUME IInv, NEW c \in DOMAIN calls, CreateAccount(c) \/ SetPassword(c) \/ SetAutomaticLogin(c)
  PROVE  IInv'
<1>1. CASE CreateAccount(c)
  <2>1. NewAccount \in Account /\ NewAccount.made
    BY DEF NewAccount, NoAccount, Account
  <2>2. \A pc \in {"password", "compare"} :
          UidOf([calls[c] EXCEPT !.pc = pc]) /\ \A a \in Account : MadeSoFar([calls[c] EXCEPT !.pc = pc], a)
    BY <1>1, Entry DEF CreateAccount, UidOf, MadeSoFar, Call
  <2>3. CASE Go(c, "compare") /\ accounts' = accounts
    BY <1>1, <2>1, <2>2, <2>3, MoveOnly, Entry DEF CreateAccount, SetAccount, Rollback, IInv, ServiceTypeOK
  <2>4. CASE /\ accounts' = [accounts EXCEPT ![NameOf(c)] = NewAccount]
             /\ Go(c, "password") \/ Go(c, "compare")
    BY <1>1, <2>1, <2>2, <2>4, AccountStep DEF CreateAccount, SetAccount, NameOf
  <2> QED BY <1>1, <2>3, <2>4 DEF CreateAccount, SetAccount, NameOf
<1>2. CASE SetPassword(c)
  <2> DEFINE account == [accounts[NameOf(c)] EXCEPT !.secret = calls[c].request.secret]
  <2>1. account \in Account /\ account.made /\ account.secret = calls[c].request.secret
    BY <1>2, Entry DEF Account, Request, IInv, OwnersOK, Owner, SetPassword
  <2>2. /\ \A pc \in {"uid", "compare"} : UidOf([calls[c] EXCEPT !.pc = pc])
        /\ \A pc \in {"uid", "compare"} : MadeSoFar([calls[c] EXCEPT !.pc = pc], account)
        /\ MadeSoFar([calls[c] EXCEPT !.pc = "compare"], accounts[NameOf(c)])
    BY <1>2, <2>1, Entry DEF SetPassword, UidOf, MadeSoFar, Call
  <2>3. SetAccount(c, account, "uid") /\ calls[c].pc = "password"
    BY <1>2 DEF SetPassword, NameOf
  <2> HIDE DEF account
  <2>4. CASE Go(c, "compare") /\ accounts' = accounts
    BY <2>2, <2>3, <2>4, MoveOnly DEF SetAccount, Rollback, IInv, ServiceTypeOK
  <2>5. CASE accounts' = [accounts EXCEPT ![NameOf(c)] = account] /\ (Go(c, "uid") \/ Go(c, "compare"))
    BY <2>1, <2>2, <2>3, <2>5, AccountStep DEF SetAccount
  <2> QED BY <2>3, <2>4, <2>5 DEF SetAccount, NameOf
<1>3. CASE SetAutomaticLogin(c)
  <2> DEFINE account == [accounts[NameOf(c)] EXCEPT !.login = TRUE]
  <2>1. account \in Account /\ account.made /\ account.secret = calls[c].request.secret /\ account.login
    BY <1>3, Entry DEF Account, IInv, OwnersOK, Owner, SetAutomaticLogin, MadeSoFar, UidOf
  <2>2. /\ \A pc \in {"host", "compare"} : UidOf([calls[c] EXCEPT !.pc = pc])
        /\ \A pc \in {"host", "compare"} : MadeSoFar([calls[c] EXCEPT !.pc = pc], account)
        /\ MadeSoFar([calls[c] EXCEPT !.pc = "compare"], accounts[NameOf(c)])
    BY <1>3, <2>1, Entry DEF SetAutomaticLogin, UidOf, MadeSoFar, Call
  <2>3. SetAccount(c, account, "host") /\ calls[c].pc = "login"
    BY <1>3 DEF SetAutomaticLogin, NameOf
  <2> HIDE DEF account
  <2>4. CASE Go(c, "compare") /\ accounts' = accounts
    BY <2>2, <2>3, <2>4, MoveOnly DEF SetAccount, Rollback, IInv, ServiceTypeOK
  <2>5. CASE accounts' = [accounts EXCEPT ![NameOf(c)] = account] /\ (Go(c, "host") \/ Go(c, "compare"))
    BY <2>1, <2>2, <2>3, <2>5, AccountStep DEF SetAccount
  <2> QED BY <2>3, <2>4, <2>5 DEF SetAccount, NameOf
<1> QED BY <1>1, <1>2, <1>3

\* Steps of other fields of the entry than its program counter.
LEMMA FieldStep ==
  ASSUME IInv, NEW c \in DOMAIN calls, NEW call \in Call,
         calls' = [calls EXCEPT ![c] = call],
         call.request = calls[c].request,
         call.pc \in {"create", "login", "failed", "delete"},
         call.pc = "login" => calls[c].pc = "uid",
         call.pc = "delete" => calls[c].pc \in {"compare", "restore"},
         call.pc \notin {"login", "delete"} => (call.uid => calls[c].uid),
         call.pc = "delete" => (call.uid <=> calls[c].uid),
         calls[c].pc = "failed" => call.pc = "failed",
         UidOf(call),
         UNCHANGED <<accounts, hostname, overlapped>>
  PROVE  IInv'
<1>1. calls \in Seq(Call)
  BY DEF IInv, ServiceTypeOK
<1>2. Becomes(c, call)
  BY <1>1, UpdateBecomes
<1>3. MadeSoFar(call, accounts[NameOf(c)])
  BY Entry DEF MadeSoFar
<1>4. Owner(c)' => Owner(c)
  BY <1>2, Entry DEF Becomes, Owner, UidOf
<1>5. Owner(c) => accounts[NameOf(c)].made
  BY DEF IInv, OwnersOK
<1> QED BY <1>2, <1>3, <1>4, <1>5, OneRequest DEF IInv, ServiceTypeOK

\* The steps of CreateUser that leave the accounts alone.
LEMMA ReadingStep ==
  ASSUME IInv, NEW c \in DOMAIN calls,
         ReadHostName(c) \/ RefuseAccount(c) \/ ReadUid(c) \/ SetStaticHostname(c)
  PROVE  IInv'
<1>0. hostname \in HostNames /\ calls[c] \in Call /\ UidOf(calls[c])
  BY Entry DEF IInv, ServiceTypeOK
<1>1. CASE ReadHostName(c)
  <2>1. CASE Go(c, "failed")
    BY <1>1, <2>1, <1>0, MoveOnly DEF ReadHostName, Over, UidOf, MadeSoFar, Call
  <2>2. CASE calls' = [calls EXCEPT ![c].pc = "create", ![c].initial = hostname]
    <3> DEFINE call == [calls[c] EXCEPT !.pc = "create", !.initial = hostname]
    <3>1. call \in Call /\ call.request = calls[c].request /\ call.pc = "create" /\ call.uid = calls[c].uid
      BY <1>0 DEF Call, Steps
    <3>2. UidOf(call)
      BY <1>0, <1>1, <3>1 DEF UidOf, ReadHostName
    <3>3. calls' = [calls EXCEPT ![c] = call]
      BY <2>2
    <3> HIDE DEF call
    <3> QED BY <1>1, <3>1, <3>2, <3>3, FieldStep DEF ReadHostName
  <2> QED BY <1>1, <2>1, <2>2 DEF ReadHostName
<1>2. CASE RefuseAccount(c)
  BY <1>2, <1>0, MoveOnly DEF RefuseAccount, Rollback, UidOf, MadeSoFar, Call
<1>3. CASE ReadUid(c)
  <2>1. CASE Go(c, "compare")
    BY <1>3, <2>1, <1>0, MoveOnly DEF ReadUid, Rollback, UidOf, MadeSoFar, Call
  <2>2. CASE calls' = [calls EXCEPT ![c].pc = "login", ![c].uid = TRUE]
    <3> DEFINE call == [calls[c] EXCEPT !.pc = "login", !.uid = TRUE]
    <3>1. call \in Call /\ call.request = calls[c].request /\ call.pc = "login" /\ call.uid
      BY <1>0 DEF Call, Steps
    <3>2. UidOf(call)
      BY <3>1 DEF UidOf
    <3>3. calls' = [calls EXCEPT ![c] = call]
      BY <2>2
    <3> HIDE DEF call
    <3> QED BY <1>3, <3>1, <3>2, <3>3, FieldStep DEF ReadUid
  <2> QED BY <1>3, <2>1, <2>2 DEF ReadUid
<1>4. CASE SetStaticHostname(c)
  <2>1. hostname' \in HostNames
    BY <1>4, <1>0, Entry DEF SetStaticHostname, Request
  <2>2. \A pc \in {"ok", "compare"} : /\ UidOf([calls[c] EXCEPT !.pc = pc])
                                      /\ MadeSoFar([calls[c] EXCEPT !.pc = pc], accounts[NameOf(c)])
    BY <1>4, <1>0, Entry DEF SetStaticHostname, UidOf, MadeSoFar, Call
  <2> QED BY <1>4, <2>1, <2>2, MoveOnly DEF SetStaticHostname, Rollback, Over
<1> QED BY <1>1, <1>2, <1>3, <1>4

\* The deferred function: while it runs, the account is still the request's.
LEMMA RollbackStep ==
  ASSUME IInv, NEW c \in DOMAIN calls,
         CompareHostName(c) \/ RestoreHostName(c) \/ DeleteAccount(c)
  PROVE  IInv'
<1>0. calls[c] \in Call /\ UidOf(calls[c]) /\ hostname \in HostNames
  BY Entry DEF IInv, ServiceTypeOK
<1>1. AfterHost(c) \in {"delete", "failed"} /\ (AfterHost(c) = "delete" <=> calls[c].uid)
  BY <1>0 DEF AfterHost, Call
<1>2. \A pc \in {"restore", "failed"} :
        /\ UidOf([calls[c] EXCEPT !.pc = pc])
        /\ MadeSoFar([calls[c] EXCEPT !.pc = pc], accounts[NameOf(c)])
  BY <1>0 DEF UidOf, MadeSoFar, Call
<1>3. /\ UidOf([calls[c] EXCEPT !.pc = AfterHost(c)])
      /\ MadeSoFar([calls[c] EXCEPT !.pc = AfterHost(c)], accounts[NameOf(c)])
  BY <1>0, <1>1 DEF UidOf, MadeSoFar, Call
<1>4. ASSUME NEW pc \in {"delete", "failed"}, pc = "delete" => calls[c].uid,
             calls[c].pc \in Rollback,
             calls' = [calls EXCEPT ![c].pc = pc, ![c].torn = TRUE],
             hostname' \in HostNames, overlapped' = overlapped,
             \/ UNCHANGED accounts
             \/ calls[c].pc = "delete" /\ pc = "failed" /\ accounts' = [accounts EXCEPT ![NameOf(c)] = NoAccount]
      PROVE  IInv'
  <2> DEFINE call == [calls[c] EXCEPT !.pc = pc, !.torn = TRUE]
  <2>1. call \in Call /\ call.request = calls[c].request /\ call.pc = pc /\ call.uid = calls[c].uid
    BY <1>0 DEF Call, Rollback, Over
  <2>2. UidOf(call)
    BY <2>1, <1>4 DEF UidOf
  <2>3. calls' = [calls EXCEPT ![c] = call]
    BY <1>4
  <2>4. Becomes(c, call)
    BY <2>1, <2>3, UpdateBecomes DEF IInv, ServiceTypeOK
  <2> HIDE DEF call
  <2>5. \A account : MadeSoFar(call, account)
    BY <2>1 DEF MadeSoFar
  <2>6. /\ Owner(c)' => Owner(c)
        /\ pc = "failed" => ~Owner(c)'
        /\ calls[c].pc = "delete" => Owner(c)
    BY <1>0, <2>1, <2>4, <1>4 DEF Becomes, Owner, Rollback, UidOf
  <2>7. Owner(c) => accounts[NameOf(c)].made
    BY DEF IInv, OwnersOK
  <2>8. NoAccount \in Account /\ accounts \in [Users -> Account] /\ NameOf(c) \in Users
    BY Entry DEF NoAccount, Account, IInv, ServiceTypeOK
  <2>9. /\ accounts' \in [Users -> Account]
        /\ \A u \in Users : u # NameOf(c) => accounts'[u] = accounts[u]
        /\ accounts' # accounts => Owner(c) /\ pc = "failed"
    BY <1>4, <2>6, <2>8
  <2>10. overlapped' \in BOOLEAN
    BY <1>4 DEF IInv, ServiceTypeOK
  <2> QED BY <1>4, <2>1, <2>2, <2>4, <2>5, <2>6, <2>7, <2>9, <2>10, OneRequest
<1>5. CASE CompareHostName(c)
  <2>1. CASE calls' = [calls EXCEPT ![c].pc = "failed", ![c].torn = TRUE]
    BY <1>0, <1>5, <2>1, <1>4 DEF CompareHostName, Rollback
  <2>2. CASE Go(c, IF hostname = calls[c].initial THEN AfterHost(c) ELSE "restore")
    BY <1>5, <2>2, <1>0, <1>1, <1>2, <1>3, MoveOnly DEF CompareHostName, Rollback, Over
  <2> QED BY <1>5, <2>1, <2>2 DEF CompareHostName
<1>6. CASE RestoreHostName(c)
  <2>1. CASE Go(c, AfterHost(c)) /\ hostname' = calls[c].initial
    BY <1>6, <2>1, <1>0, <1>1, <1>3, MoveOnly DEF RestoreHostName, Rollback, Over, Call
  <2>2. CASE /\ hostname' \in {hostname, calls[c].initial}
             /\ calls' = [calls EXCEPT ![c].pc = AfterHost(c), ![c].torn = TRUE]
    <3>1. hostname' \in HostNames
      BY <1>0, <2>2 DEF Call
    <3> QED BY <1>6, <2>2, <3>1, <1>1, <1>4 DEF RestoreHostName, Rollback
  <2> QED BY <1>6, <2>1, <2>2 DEF RestoreHostName
<1>7. CASE DeleteAccount(c)
  <2>1. CASE calls' = [calls EXCEPT ![c].pc = "failed", ![c].torn = TRUE]
    BY <1>0, <1>7, <2>1, <1>4 DEF DeleteAccount, Rollback, NameOf
  <2>2. CASE Go(c, "failed") /\ accounts' = [accounts EXCEPT ![NameOf(c)] = NoAccount]
    <3> DEFINE call == [calls[c] EXCEPT !.pc = "failed"]
    <3>1. call \in Call /\ call.request = calls[c].request /\ call.pc = "failed"
      BY <1>0 DEF Call, Over
    <3>2. Becomes(c, call)
      BY <2>2, GoBecomes DEF IInv, ServiceTypeOK, Over
    <3>3. UidOf(call) /\ MadeSoFar(call, NoAccount)
      BY <3>1 DEF UidOf, MadeSoFar
    <3>4. Owner(c) /\ ~Owner(c)'
      BY <1>7, <1>0, <3>1, <3>2 DEF Owner, DeleteAccount, UidOf, Becomes
    <3>5. NoAccount \in Account /\ accounts \in [Users -> Account] /\ NameOf(c) \in Users
      BY Entry DEF NoAccount, Account, IInv, ServiceTypeOK
    <3>6. /\ accounts' \in [Users -> Account]
          /\ accounts'[NameOf(c)] = NoAccount
          /\ \A u \in Users : u # NameOf(c) => accounts'[u] = accounts[u]
      BY <2>2, <3>5
    <3>7. hostname' \in HostNames /\ overlapped' \in BOOLEAN
      BY <1>7 DEF DeleteAccount, IInv, ServiceTypeOK
    <3> HIDE DEF call
    <3> QED BY <3>1, <3>2, <3>3, <3>4, <3>6, <3>7, OneRequest
  <2> QED BY <1>7, <2>1, <2>2 DEF DeleteAccount, NameOf
<1> QED BY <1>5, <1>6, <1>7

------------------------------------------------------------------------------
\* A new request owns nothing yet.
LEMMA BeginStep ==
  ASSUME IInv, NEW request \in Requests, Begin(request)
  PROVE  IInv'
<1> DEFINE call == [request |-> request, pc |-> "read", initial |-> InitialHost,
                    uid |-> FALSE, torn |-> FALSE]
<1>1. call \in Call
  BY RequestsAssumption DEF Call, Steps
<1>2. calls \in Seq(Call) /\ calls' = Append(calls, call)
  BY DEF IInv, ServiceTypeOK, Begin
<1>3. UidOf(call) /\ (\A a : MadeSoFar(call, a)) /\ call.pc = "read" /\ ~call.uid
  BY DEF UidOf, MadeSoFar
<1> HIDE DEF call
<1>4. /\ calls' \in Seq(Call)
      /\ Len(calls') = Len(calls) + 1
      /\ \A i \in 1..Len(calls) : calls'[i] = calls[i]
      /\ calls'[Len(calls) + 1] = call
  BY <1>1, <1>2, AppendProperties
<1>5. /\ DOMAIN calls = 1..Len(calls)
      /\ DOMAIN calls' = 1..(Len(calls) + 1)
      /\ Len(calls) \in Nat
  BY <1>2, <1>4, LenProperties
<1>6. \A d \in DOMAIN calls' : (d \in DOMAIN calls /\ calls'[d] = calls[d]) \/ calls'[d] = call
  BY <1>4, <1>5
<1>7. ServiceTypeOK' /\ UNCHANGED accounts
  BY <1>4 DEF IInv, ServiceTypeOK, Begin
<1>8. \A d \in DOMAIN calls' : Owner(d)' => d \in DOMAIN calls /\ Owner(d) /\ NameOf(d)' = NameOf(d)
  BY <1>3, <1>6 DEF Owner, NameOf
<1>9. UidOK' /\ ProgressOK'
  BY <1>3, <1>6, <1>7 DEF UidOK, ProgressOK, IInv, NameOf
<1>10. OwnersOK' /\ ImageOK'
  BY <1>7, <1>8 DEF OwnersOK, ImageOK, IInv
<1> QED BY <1>7, <1>9, <1>10 DEF IInv

LEMMA ServiceStep ==
  ASSUME IInv, [ServiceNext]_serviceVars PROVE IInv'
<1>1. CASE UNCHANGED serviceVars
  BY <1>1 DEF serviceVars, IInv, ServiceTypeOK, UidOK, ProgressOK, OwnersOK, ImageOK, NameOf, Owner
<1>2. CASE \E request \in Requests : Begin(request)
  BY <1>2, BeginStep
<1>3. CASE \E c \in DOMAIN calls : Serve(c)
  BY <1>3, MakingStep, ReadingStep, RollbackStep DEF Serve
<1> QED BY <1>1, <1>2, <1>3 DEF ServiceNext

LEMMA ServiceInductive == ServiceSpec => []IInv
<1>1. ServiceInit => IInv
  <2> SUFFICES ASSUME ServiceInit PROVE IInv
    OBVIOUS
  <2>1. calls = <<>> /\ calls \in Seq(Call) /\ DOMAIN calls = {}
    BY EmptySeq, LenProperties DEF ServiceInit
  <2>2. NewAccount \in Account /\ NoAccount \in Account
    BY DEF NewAccount, NoAccount, Account
  <2>3. ServiceTypeOK /\ ImageOK
    BY <2>1, <2>2, RequestsAssumption DEF ServiceInit, ServiceTypeOK, ImageOK
  <2> QED BY <2>1, <2>3 DEF IInv, UidOK, ProgressOK, OwnersOK
<1> QED BY <1>1, ServiceStep, PTL DEF ServiceSpec

LEMMA OwnersKeepAccounts ==
  ASSUME IInv PROVE AccountsAreKept
<1>1. ASSUME NEW c \in DOMAIN calls, calls[c].pc = "ok"
      PROVE  accounts[NameOf(c)] = Complete(calls[c].request)
  <2>1. Owner(c) /\ accounts[NameOf(c)] \in Account
    BY <1>1, Entry DEF Owner, UidOf
  <2>2. /\ accounts[NameOf(c)].made
        /\ accounts[NameOf(c)].secret = calls[c].request.secret
        /\ accounts[NameOf(c)].login
    BY <1>1, <2>1, Entry DEF IInv, OwnersOK, MadeSoFar
  <2> QED BY <2>1, <2>2 DEF Account, Complete
<1> QED BY <1>1 DEF AccountsAreKept, IInv, ImageOK, NameOf

------------------------------------------------------------------------------
\* Whether a request accounts for an account of its name, were it over now.
Holds(call) ==
  /\ call.pc \notin {"read", "create"}
  /\ call.pc = "failed" => ~call.uid \/ call.torn

HeldOK ==
  \A u \in Users \ Existing :
    accounts[u].made => \E c \in DOMAIN calls : NameOf(c) = u /\ Holds(calls[c])

\* h is the host name of the image, or of the last request that succeeded.
Expects(h) ==
  IF Succeeded = {} THEN h = InitialHost
  ELSE \E c \in Succeeded : (\A d \in Succeeded : d <= c) /\ h = calls[c].request.host

\* While requests come one after the other and no rollback has failed, the one
\* under way is the last; it has read the host name that is to be restored,
\* and that name is in place except during its last call and its rollback.
HostOK ==
  (~overlapped /\ \A c \in DOMAIN calls : ~calls[c].torn) =>
    /\ \A c \in DOMAIN calls : UnderWay(c) => \A d \in DOMAIN calls : d <= c /\ (UnderWay(d) => d = c)
    /\ Idle => Expects(hostname)
    /\ \A c \in DOMAIN calls : calls[c].pc = "read" => Expects(hostname)
    /\ \A c \in DOMAIN calls :
         UnderWay(c) /\ calls[c].pc # "read" =>
           /\ Expects(calls[c].initial)
           /\ calls[c].pc \notin {"compare", "restore"} => hostname = calls[c].initial

\* What a step of a request does to its account and to the host name.
KeepsHold(c, call) ==
  /\ \A u \in Users : u # NameOf(c) => accounts'[u] = accounts[u]
  /\ accounts'[NameOf(c)].made =>
       Holds(call) \/ (accounts[NameOf(c)].made /\ ~Holds(calls[c]))

KeepsHost(c, call) ==
  LET old == calls[c]
  IN  /\ old.torn => call.torn
      /\ old.pc # "read" => call.initial = old.initial
      /\ \/ old.pc = "read" /\ hostname' = hostname /\ call.pc = "create" /\ call.initial = hostname
         \/ old.pc = "read" /\ hostname' = hostname /\ call.pc = "failed"
         \/ /\ old.pc \in {"create", "password", "uid", "login"}
            /\ hostname' = hostname
            /\ call.pc \in {"password", "uid", "login", "host", "compare"}
         \/ old.pc = "host" /\ call.pc = "ok" /\ hostname' = call.request.host
         \/ old.pc = "host" /\ call.pc = "compare"
         \/ old.pc \in Rollback /\ call.torn
         \/ old.pc = "compare" /\ call.pc = "restore"
         \/ old.pc = "compare" /\ hostname' = hostname /\ hostname = old.initial /\ call.pc \in {"delete", "failed"}
         \/ old.pc = "restore" /\ hostname' = old.initial /\ call.pc \in {"delete", "failed"}
         \/ old.pc = "delete" /\ hostname' = hostname /\ call.pc = "failed"

LEMMA GoEffect ==
  ASSUME IInv, NEW c \in DOMAIN calls, NEW pc \in Steps \cup Rollback \cup Over, Go(c, pc)
  PROVE  LET call == [calls[c] EXCEPT !.pc = pc]
         IN  /\ Becomes(c, call)
             /\ call.pc = pc
             /\ call.request = calls[c].request /\ call.initial = calls[c].initial
             /\ call.uid = calls[c].uid /\ call.torn = calls[c].torn
<1>1. calls[c] \in Call
  BY Entry
<1> QED BY <1>1, GoBecomes DEF IInv, ServiceTypeOK, Call

LEMMA TornEffect ==
  ASSUME IInv, NEW c \in DOMAIN calls, NEW pc \in {"delete", "failed"},
         calls' = [calls EXCEPT ![c].pc = pc, ![c].torn = TRUE]
  PROVE  LET call == [calls[c] EXCEPT !.pc = pc, !.torn = TRUE]
         IN  /\ Becomes(c, call)
             /\ call.pc = pc /\ call.torn
             /\ call.request = calls[c].request /\ call.initial = calls[c].initial
<1> DEFINE call == [calls[c] EXCEPT !.pc = pc, !.torn = TRUE]
<1>1. calls[c] \in Call
  BY Entry
<1>2. call \in Call
  BY <1>1 DEF Call, Rollback, Over
<1>3. calls' = [calls EXCEPT ![c] = call]
  OBVIOUS
<1>4. Becomes(c, call)
  BY <1>2, <1>3, UpdateBecomes DEF IInv, ServiceTypeOK
<1> QED BY <1>1, <1>4 DEF Call

\* The steps of CreateUser, as HeldOK and HostOK see them.
LEMMA ServeEffect ==
  ASSUME IInv, NEW c \in DOMAIN calls, Serve(c)
  PROVE  \E call \in Call : /\ Becomes(c, call) /\ call.request = calls[c].request
                            /\ KeepsHold(c, call) /\ KeepsHost(c, call)
                            /\ UnderWay(c) /\ UNCHANGED overlapped
<1>0. /\ calls[c] \in Call /\ UidOf(calls[c]) /\ hostname \in HostNames /\ NameOf(c) \in Users
      /\ accounts[NameOf(c)] \in Account /\ accounts \in [Users -> Account]
  BY Entry DEF IInv, ServiceTypeOK
<1>1. CASE ReadHostName(c)
  <2>1. CASE Go(c, "failed")
    <3> DEFINE call == [calls[c] EXCEPT !.pc = "failed"]
    <3>1. /\ Becomes(c, call) /\ call.pc = "failed" /\ call.request = calls[c].request
          /\ call.torn = calls[c].torn /\ call.uid = calls[c].uid
      BY <2>1, GoEffect DEF Over
    <3>2. call \in Call
      BY <1>0 DEF Call, Over
    <3>3. ~calls[c].uid
      BY <1>0, <1>1 DEF UidOf, ReadHostName
    <3> HIDE DEF call
    <3> QED BY <1>1, <3>1, <3>2, <3>3 DEF ReadHostName, KeepsHold, Holds, KeepsHost, UnderWay, Over
  <2>2. CASE calls' = [calls EXCEPT ![c].pc = "create", ![c].initial = hostname]
    <3> DEFINE call == [calls[c] EXCEPT !.pc = "create", !.initial = hostname]
    <3>1. call \in Call /\ call.request = calls[c].request /\ call.pc = "create" /\ call.initial = hostname /\ call.torn = calls[c].torn
      BY <1>0 DEF Call, Steps
    <3>2. calls' = [calls EXCEPT ![c] = call]
      BY <2>2
    <3> HIDE DEF call
    <3>3. Becomes(c, call)
      BY <3>1, <3>2, UpdateBecomes DEF IInv, ServiceTypeOK
    <3> QED BY <1>1, <3>1, <3>3 DEF ReadHostName, KeepsHold, Holds, KeepsHost, UnderWay, Over
  <2> QED BY <1>1, <2>1, <2>2 DEF ReadHostName
<1>2. CASE CreateAccount(c) \/ SetPassword(c) \/ SetAutomaticLogin(c)
  <2>1. PICK account \in Account, next \in {"password", "uid", "host"} : SetAccount(c, account, next)
    <3>1. NewAccount \in Account
      BY DEF NewAccount, NoAccount, Account
    <3>2. \A secret \in Secrets : [accounts[NameOf(c)] EXCEPT !.secret = secret] \in Account
      BY <1>0 DEF Account
    <3>3. [accounts[NameOf(c)] EXCEPT !.login = TRUE] \in Account
      BY <1>0 DEF Account
    <3>4. calls[c].request.secret \in Secrets
      BY Entry DEF Request
    <3> QED BY <1>2, <3>1, <3>2, <3>3, <3>4 DEF CreateAccount, SetPassword, SetAutomaticLogin, NameOf
  <2>2. PICK pc \in {"password", "uid", "host", "compare"} : Go(c, pc)
    BY <2>1 DEF SetAccount
  <2>3. calls[c].pc \in {"create", "password", "login"}
    BY <1>2 DEF CreateAccount, SetPassword, SetAutomaticLogin
  <2>4. /\ UNCHANGED <<hostname, overlapped>>
        /\ \A u \in Users : u # NameOf(c) => accounts'[u] = accounts[u]
    BY <1>0, <2>1 DEF SetAccount, NameOf
  <2> DEFINE call == [calls[c] EXCEPT !.pc = pc]
  <2>5. /\ Becomes(c, call) /\ call.pc = pc /\ call.request = calls[c].request
        /\ call.initial = calls[c].initial /\ call.torn = calls[c].torn
    BY <2>2, GoEffect DEF Steps, Rollback
  <2>6. call \in Call
    BY <1>0 DEF Call, Steps, Rollback
  <2> HIDE DEF call
  <2> QED BY <2>3, <2>4, <2>5, <2>6 DEF KeepsHold, Holds, KeepsHost, UnderWay, Over
<1>3. CASE RefuseAccount(c) \/ (ReadUid(c) /\ Go(c, "compare")) \/ SetStaticHostname(c) \/ (CompareHostName(c) /\ Go(c, "restore"))
  <2>1. UNCHANGED <<accounts, overlapped>>
    BY <1>3 DEF RefuseAccount, ReadUid, SetStaticHostname, CompareHostName
  <2>2. PICK pc \in {"compare", "restore", "ok"} :
          /\ Go(c, pc)
          /\ pc = "restore" => calls[c].pc = "compare"
          /\ pc = "ok" => calls[c].pc = "host" /\ hostname' = calls[c].request.host
          /\ pc = "compare" =>
               calls[c].pc = "host" \/ (calls[c].pc \in {"create", "uid"} /\ hostname' = hostname)
    BY <1>3 DEF RefuseAccount, ReadUid, SetStaticHostname, CompareHostName
  <2> DEFINE call == [calls[c] EXCEPT !.pc = pc]
  <2>3. /\ Becomes(c, call) /\ call.pc = pc /\ call.request = calls[c].request
        /\ call.initial = calls[c].initial /\ call.torn = calls[c].torn
    BY <2>2, GoEffect DEF Over, Rollback
  <2>4. call \in Call
    BY <1>0 DEF Call, Over, Rollback
  <2> HIDE DEF call
  <2> QED BY <2>1, <2>2, <2>3, <2>4 DEF KeepsHold, Holds, KeepsHost, UnderWay, Over
<1>4. CASE ReadUid(c) /\ calls' = [calls EXCEPT ![c].pc = "login", ![c].uid = TRUE]
  <2> DEFINE call == [calls[c] EXCEPT !.pc = "login", !.uid = TRUE]
  <2>1. call \in Call /\ call.request = calls[c].request /\ call.pc = "login" /\ call.initial = calls[c].initial /\ call.torn = calls[c].torn
    BY <1>0 DEF Call, Steps
  <2>2. calls' = [calls EXCEPT ![c] = call]
    BY <1>4
  <2> HIDE DEF call
  <2>3. Becomes(c, call)
    BY <2>1, <2>2, UpdateBecomes DEF IInv, ServiceTypeOK
  <2> QED BY <1>4, <2>1, <2>3 DEF ReadUid, KeepsHold, Holds, KeepsHost, UnderWay, Over
<1>5. ASSUME NEW pc \in {"delete", "failed"}, calls[c].pc \in Rollback,
             calls' = [calls EXCEPT ![c].pc = pc, ![c].torn = TRUE],
             \A u \in Users : u # NameOf(c) => accounts'[u] = accounts[u],
             UNCHANGED overlapped
      PROVE  \E call \in Call : /\ Becomes(c, call) /\ call.request = calls[c].request
                                /\ KeepsHold(c, call) /\ KeepsHost(c, call)
                                /\ UnderWay(c) /\ UNCHANGED overlapped
  <2> DEFINE call == [calls[c] EXCEPT !.pc = pc, !.torn = TRUE]
  <2>1. /\ Becomes(c, call) /\ call.pc = pc /\ call.torn /\ call.request = calls[c].request
        /\ call.initial = calls[c].initial
    BY <1>5, TornEffect
  <2>2. call \in Call
    BY <1>0 DEF Call, Over, Rollback
  <2> HIDE DEF call
  <2> QED BY <1>5, <2>1, <2>2 DEF KeepsHold, Holds, KeepsHost, UnderWay, Over, Rollback
<1>6. AfterHost(c) \in {"delete", "failed"} /\ (AfterHost(c) = "failed" => ~calls[c].uid)
  BY <1>0 DEF AfterHost, Call
<1>7. CASE \/ CompareHostName(c) /\ Go(c, AfterHost(c)) /\ hostname = calls[c].initial
           \/ RestoreHostName(c) /\ Go(c, AfterHost(c)) /\ hostname' = calls[c].initial
           \/ DeleteAccount(c) /\ Go(c, "failed") /\ accounts' = [accounts EXCEPT ![NameOf(c)] = NoAccount]
  <2>1. PICK pc \in {"delete", "failed"} :
          /\ Go(c, pc)
          /\ pc = "failed" => ~calls[c].uid \/ calls[c].pc = "delete"
          /\ calls[c].pc = "delete" => pc = "failed"
    BY <1>6, <1>7 DEF CompareHostName, RestoreHostName, DeleteAccount
  <2> DEFINE call == [calls[c] EXCEPT !.pc = pc]
  <2>2. /\ Becomes(c, call) /\ call.pc = pc /\ call.request = calls[c].request
        /\ call.initial = calls[c].initial /\ call.torn = calls[c].torn /\ call.uid = calls[c].uid
    <3>1. pc \in Steps \cup Rollback \cup Over /\ Go(c, pc)
      BY <2>1 DEF Over, Rollback
    <3> QED BY <3>1, GoEffect
  <2>3. call \in Call
    BY <1>0 DEF Call, Over, Rollback
  <2>4. ~NoAccount.made
    BY DEF NoAccount
  <2>5. \/ calls[c].pc \in {"compare", "restore"} /\ UNCHANGED accounts
        \/ /\ calls[c].pc = "delete"
           /\ ~accounts'[NameOf(c)].made
           /\ \A u \in Users : u # NameOf(c) => accounts'[u] = accounts[u]
    BY <1>0, <1>7, <2>4 DEF CompareHostName, RestoreHostName, DeleteAccount
  <2>6. /\ UNCHANGED overlapped
        /\ \/ calls[c].pc = "compare" /\ hostname' = hostname /\ hostname = calls[c].initial
           \/ calls[c].pc = "restore" /\ hostname' = calls[c].initial
           \/ calls[c].pc = "delete" /\ hostname' = hostname
    BY <1>7 DEF CompareHostName, RestoreHostName, DeleteAccount
  <2> HIDE DEF call
  <2>7. KeepsHold(c, call)
    BY <2>1, <2>2, <2>5 DEF KeepsHold, Holds
  <2>8. KeepsHost(c, call) /\ UnderWay(c)
    BY <2>1, <2>2, <2>6 DEF KeepsHost, UnderWay, Over
  <2> QED BY <2>2, <2>3, <2>6, <2>7, <2>8
<1>8. CASE /\ CompareHostName(c) \/ RestoreHostName(c) \/ DeleteAccount(c)
           /\ \E pc \in {"delete", "failed"} : calls' = [calls EXCEPT ![c].pc = pc, ![c].torn = TRUE]
  <2>1. calls[c].pc \in Rollback /\ UNCHANGED overlapped
    BY <1>8 DEF CompareHostName, RestoreHostName, DeleteAccount, Rollback
  <2>2. \A u \in Users : u # NameOf(c) => accounts'[u] = accounts[u]
    BY <1>0, <1>8 DEF CompareHostName, RestoreHostName, DeleteAccount, NameOf
  <2> QED BY <1>5, <1>8, <2>1, <2>2
<1>9. CASE CompareHostName(c) \/ RestoreHostName(c) \/ DeleteAccount(c)
  BY <1>3, <1>6, <1>7, <1>8, <1>9 DEF CompareHostName, RestoreHostName, DeleteAccount, NameOf
<1> QED BY <1>1, <1>2, <1>3, <1>4, <1>9 DEF Serve, ReadUid

\* An account that is there after a step is held by the request of the step or
\* by one that held it before.
LEMMA ServeHeld ==
  ASSUME IInv, HeldOK, NEW c \in DOMAIN calls, Serve(c)
  PROVE  HeldOK'
<1>1. PICK call \in Call : /\ Becomes(c, call) /\ call.request = calls[c].request
                           /\ KeepsHold(c, call)
  BY ServeEffect
<1>2. SUFFICES ASSUME NEW u \in Users \ Existing, accounts'[u].made
               PROVE  \E d \in DOMAIN calls' : calls'[d].request.user = u /\ Holds(calls'[d])
  BY DEF HeldOK, NameOf
<1>3. ASSUME NEW d \in DOMAIN calls, d # c, NameOf(d) = u, Holds(calls[d])
      PROVE  \E e \in DOMAIN calls' : calls'[e].request.user = u /\ Holds(calls'[e])
  BY <1>1, <1>3 DEF Becomes, NameOf
<1>4. CASE u # NameOf(c)
  BY <1>1, <1>2, <1>3, <1>4 DEF KeepsHold, HeldOK
<1>5. CASE u = NameOf(c) /\ Holds(call)
  BY <1>1, <1>5 DEF Becomes, NameOf
<1>6. CASE u = NameOf(c) /\ ~Holds(call)
  <2>1. accounts[u].made /\ ~Holds(calls[c])
    BY <1>1, <1>2, <1>6 DEF KeepsHold
  <2> QED BY <2>1, <1>3 DEF HeldOK
<1> QED BY <1>4, <1>5, <1>6

\* Requests come one after the other: the step is one of the last request.
LEMMA ServeHost ==
  ASSUME IInv, HostOK, NEW c \in DOMAIN calls, Serve(c)
  PROVE  HostOK'
<1>1. PICK call \in Call : /\ Becomes(c, call) /\ call.request = calls[c].request
                           /\ KeepsHost(c, call) /\ UnderWay(c) /\ UNCHANGED overlapped
  BY ServeEffect
<1>2. SUFFICES ASSUME ~overlapped', \A d \in DOMAIN calls' : ~calls'[d].torn
               PROVE  /\ \A d \in DOMAIN calls' : UnderWay(d)' =>
                           \A e \in DOMAIN calls' : e <= d /\ (UnderWay(e)' => e = d)
                      /\ Idle' => Expects(hostname)'
                      /\ \A d \in DOMAIN calls' : calls'[d].pc = "read" => Expects(hostname)'
                      /\ \A d \in DOMAIN calls' : UnderWay(d)' /\ calls'[d].pc # "read" =>
                           /\ Expects(calls[d].initial)'
                           /\ calls'[d].pc \notin {"compare", "restore"} => hostname' = calls'[d].initial
  BY DEF HostOK
<1>3. ~overlapped /\ \A d \in DOMAIN calls : ~calls[d].torn
  BY <1>1, <1>2 DEF Becomes, KeepsHost
<1>4. \A d \in DOMAIN calls : d <= c /\ (UnderWay(d) => d = c)
  BY <1>1, <1>3 DEF HostOK
<1>5. /\ DOMAIN calls' = DOMAIN calls /\ calls'[c] = call /\ ~call.torn
      /\ \A d \in DOMAIN calls : d # c => calls'[d] = calls[d] /\ ~UnderWay(d)'
  BY <1>1, <1>2, <1>4 DEF Becomes, UnderWay
<1>6. CASE call.pc = "ok"
  <2>1. hostname' = call.request.host
    BY <1>1, <1>5, <1>6 DEF KeepsHost, UnderWay, Over
  <2>2. Succeeded' = Succeeded \cup {c} /\ ~UnderWay(c)'
    BY <1>5, <1>6 DEF Succeeded, UnderWay, Over
  <2>3. \A d \in Succeeded' : d <= c
    BY <2>2, <1>4 DEF Succeeded
  <2>4. Expects(hostname)'
    BY <2>1, <2>2, <2>3, <1>5 DEF Expects
  <2> QED BY <2>2, <2>4, <1>5
<1>7. CASE call.pc # "ok"
  <2>1. Succeeded' = Succeeded
    BY <1>1, <1>5, <1>7 DEF Succeeded, UnderWay, Over
  <2>2. \A d \in Succeeded : calls'[d].request.host = calls[d].request.host
    BY <1>1, <1>5 DEF Succeeded
  <2>3. /\ Expects(hostname) /\ hostname' = hostname => Expects(hostname)'
        /\ Expects(hostname) /\ call.initial = hostname => Expects(calls[c].initial)'
        /\ Expects(calls[c].initial) /\ hostname' = calls[c].initial => Expects(hostname)'
        /\ Expects(calls[c].initial) /\ call.initial = calls[c].initial => Expects(calls[c].initial)'
    BY <2>1, <2>2, <1>5 DEF Expects
  <2>4. /\ calls[c].pc = "read" => Expects(hostname)
        /\ calls[c].pc # "read" =>
             /\ Expects(calls[c].initial)
             /\ calls[c].pc \notin {"compare", "restore"} => hostname = calls[c].initial
    BY <1>1, <1>3 DEF HostOK
  <2>5. CASE calls[c].pc = "read"
    <3>1. /\ hostname' = hostname
          /\ call.pc = "failed" \/ (call.pc = "create" /\ call.initial = hostname)
      BY <1>1, <1>5, <2>5 DEF KeepsHost, Rollback
    <3>2. Expects(hostname)' /\ (call.pc = "create" => Expects(calls[c].initial)')
      BY <2>3, <2>4, <2>5, <3>1
    <3> QED BY <1>4, <1>5, <3>1, <3>2 DEF UnderWay, Over
  <2>6. CASE calls[c].pc # "read"
    <3>1. Expects(calls[c].initial)' /\ call.initial = calls[c].initial
      BY <1>1, <2>3, <2>4, <2>6 DEF KeepsHost
    <3>2. /\ call.pc # "read"
          /\ call.pc \notin {"compare", "restore"} => hostname' = call.initial
      BY <1>1, <1>5, <1>7, <2>4, <2>6, <3>1 DEF KeepsHost
    <3>3. call.pc = "failed" => Expects(hostname)'
      BY <2>3, <2>4, <2>6, <3>1, <3>2
    <3>4. Idle' => call.pc = "failed"
      BY <1>5, <1>7 DEF Idle, UnderWay, Over
    <3> QED BY <1>4, <1>5, <3>1, <3>2, <3>3, <3>4 DEF UnderWay, Over
  <2> QED BY <2>5, <2>6
<1> QED BY <1>6, <1>7

\* A new request is the last one and has not done anything.
LEMMA NewEntry ==
  ASSUME IInv, NEW request \in Requests, Begin(request)
  PROVE  \E n \in Nat : /\ n \notin DOMAIN calls /\ DOMAIN calls' = DOMAIN calls \cup {n}
                        /\ \A d \in DOMAIN calls : calls'[d] = calls[d] /\ d <= n
                        /\ calls'[n].pc = "read"
<1> DEFINE call == [request |-> request, pc |-> "read", initial |-> InitialHost,
                    uid |-> FALSE, torn |-> FALSE]
<1>1. call \in Call /\ call.pc = "read"
  BY RequestsAssumption DEF Call, Steps
<1>2. calls \in Seq(Call) /\ calls' = Append(calls, call)
  BY DEF IInv, ServiceTypeOK, Begin
<1> HIDE DEF call
<1>3. /\ calls' \in Seq(Call)
      /\ Len(calls') = Len(calls) + 1
      /\ \A i \in 1..Len(calls) : calls'[i] = calls[i]
      /\ calls'[Len(calls) + 1] = call
  BY <1>1, <1>2, AppendProperties
<1>4. /\ DOMAIN calls = 1..Len(calls)
      /\ DOMAIN calls' = 1..(Len(calls) + 1)
      /\ Len(calls) \in Nat
  BY <1>2, <1>3, LenProperties
<1> DEFINE n == Len(calls) + 1
<1>5. /\ n \in Nat /\ n \notin DOMAIN calls /\ DOMAIN calls' = DOMAIN calls \cup {n}
      /\ \A d \in DOMAIN calls : d <= n
  BY <1>4
<1> QED BY <1>1, <1>3, <1>4, <1>5

LEMMA BeginHeldHost ==
  ASSUME IInv, HeldOK, HostOK, NEW request \in Requests, Begin(request)
  PROVE  HeldOK' /\ HostOK'
<1>1. PICK n \in Nat : /\ n \notin DOMAIN calls /\ DOMAIN calls' = DOMAIN calls \cup {n}
                       /\ \A d \in DOMAIN calls : calls'[d] = calls[d] /\ d <= n
                       /\ calls'[n].pc = "read"
  BY NewEntry
<1>2. UNCHANGED <<accounts, hostname>> /\ overlapped' = (overlapped \/ ~Idle)
  BY DEF Begin
<1>3. HeldOK'
  BY <1>1, <1>2 DEF HeldOK, NameOf
<1>4. HostOK'
  <2>1. SUFFICES ASSUME ~overlapped', \A d \in DOMAIN calls' : ~calls'[d].torn
                 PROVE  /\ \A d \in DOMAIN calls' : UnderWay(d)' =>
                             \A e \in DOMAIN calls' : e <= d /\ (UnderWay(e)' => e = d)
                        /\ Idle' => Expects(hostname)'
                        /\ \A d \in DOMAIN calls' : calls'[d].pc = "read" => Expects(hostname)'
                        /\ \A d \in DOMAIN calls' : UnderWay(d)' /\ calls'[d].pc # "read" =>
                             /\ Expects(calls[d].initial)'
                             /\ calls'[d].pc \notin {"compare", "restore"} => hostname' = calls'[d].initial
    BY DEF HostOK
  <2>2. ~overlapped /\ Idle /\ \A d \in DOMAIN calls : ~calls[d].torn
    BY <1>1, <1>2, <2>1
  <2>3. Expects(hostname)
    BY <2>2 DEF HostOK
  <2>4. \A d \in DOMAIN calls : ~UnderWay(d)'
    BY <1>1, <2>2 DEF Idle, UnderWay
  <2>5. UnderWay(n)' /\ n <= n
    BY <1>1 DEF UnderWay, Over
  <2>6. Succeeded' = Succeeded
    BY <1>1 DEF Succeeded
  <2>7. \A d \in Succeeded : calls'[d] = calls[d]
    BY <1>1 DEF Succeeded
  <2>8. Expects(hostname)'
    BY <1>2, <2>3, <2>6, <2>7 DEF Expects
  <2> QED BY <1>1, <2>4, <2>5, <2>8
<1> QED BY <1>3, <1>4

LEMMA ServiceHolds == ServiceSpec => [](IInv /\ HeldOK /\ HostOK)
<1>1. ServiceInit => HeldOK /\ HostOK
  <2> SUFFICES ASSUME ServiceInit PROVE HeldOK /\ HostOK
    OBVIOUS
  <2>1. DOMAIN calls = {}
    BY EmptySeq, LenProperties DEF ServiceInit
  <2>2. HeldOK
    BY DEF HeldOK, ServiceInit, NoAccount
  <2>3. Expects(hostname)
    BY <2>1 DEF Expects, Succeeded, ServiceInit
  <2> QED BY <2>1, <2>2, <2>3 DEF HostOK
<1>2. ASSUME IInv, HeldOK /\ HostOK, [ServiceNext]_serviceVars
      PROVE  HeldOK' /\ HostOK'
  <2>1. CASE UNCHANGED serviceVars
    BY <1>2, <2>1 DEF serviceVars, HeldOK, HostOK, Holds, NameOf, Expects, Succeeded, Idle, UnderWay
  <2>2. CASE \E request \in Requests : Begin(request)
    BY <1>2, <2>2, BeginHeldHost
  <2>3. CASE \E c \in DOMAIN calls : Serve(c)
    BY <1>2, <2>3, ServeHeld, ServeHost
  <2> QED BY <1>2, <2>1, <2>2, <2>3 DEF ServiceNext
<1> QED BY <1>1, <1>2, ServiceInductive, PTL DEF ServiceSpec

------------------------------------------------------------------------------
\* The state of the user service stays well typed, whoever its clients are.
THEOREM ServiceTypeCorrect == ServiceSpec => []ServiceTypeOK
<1>1. IInv => ServiceTypeOK BY DEF IInv
<1> QED BY <1>1, ServiceInductive, PTL

\* Any client, any number of interleaved requests: a reported account stays as
\* it was reported, and the accounts of the image are never touched.
THEOREM ServiceKeepsAccounts == ServiceSpec => []AccountsAreKept
BY OwnersKeepAccounts, ServiceInductive, PTL

\* Any client, any number of interleaved requests, whatever fails: no account
\* stays behind, except in the gaps of the rollback.
THEOREM ServiceLeavesNoOrphans == ServiceSpec => []NoOrphans
<1>1. ASSUME HeldOK, Idle, NEW u \in Users \ Existing, accounts[u].made
      PROVE  \E c \in DOMAIN calls : /\ calls[c].request.user = u
                                     /\ calls[c].pc = "ok" \/ ~calls[c].uid \/ calls[c].torn
  <2>1. PICK c \in DOMAIN calls : NameOf(c) = u /\ Holds(calls[c])
    BY <1>1 DEF HeldOK
  <2>2. calls[c].pc \in Over
    BY <1>1 DEF Idle, UnderWay
  <2> QED BY <2>1, <2>2 DEF Holds, NameOf, Over
<1>2. HeldOK => NoOrphans
  BY <1>1 DEF NoOrphans
<1> QED BY <1>2, ServiceHolds, PTL

\* Requests that come one after the other leave the host name of the last one
\* that succeeded, for any number of failed ones between.
THEOREM ServiceRestoresHostName == ServiceSpec => []HostNameRestored
<1>1. HostOK => HostNameRestored
  BY DEF HostOK, HostNameRestored, Expects
<1> QED BY <1>1, ServiceHolds, PTL

------------------------------------------------------------------------------
(* UserService implements Accounts *)

\* A request that knows the uid of its account only fails for a fault.
FaultOK == \A c \in DOMAIN calls : calls[c].pc \in Rollback /\ calls[c].uid => Faults

\* What a step of a request is for its client.
BookEffect(c) ==
  LET made == accounts[NameOf(c)].made
  IN  \/ Status(c)' = Status(c) /\ (Owner(c)' <=> Owner(c)) /\ (made' <=> made)
      \/ /\ Status(c) = "asked" /\ ~Owner(c) /\ ~made
         /\ Status(c)' = "holding" /\ Owner(c)' /\ made'
      \/ /\ Status(c) = "asked" /\ ~Owner(c) /\ (made \/ Faults)
         /\ Status(c)' \in {"failing", "failed"} /\ ~Owner(c)' /\ (made' <=> made)
      \/ /\ Faults
         /\ (Status(c) = "asked" /\ ~Owner(c) /\ ~made) \/ (Status(c) = "holding" /\ Owner(c))
         /\ Status(c)' = "failing" /\ ~Owner(c)' /\ made'
      \/ /\ Faults
         /\ Status(c) = "holding" /\ Owner(c)
         /\ Status(c)' = "failed" /\ ~Owner(c)'
      \/ /\ Status(c) = "failing" /\ ~Owner(c)
         /\ Status(c)' = "failed" /\ ~Owner(c)' /\ (made' <=> made)
      \/ /\ Status(c) = "holding" /\ Owner(c)
         /\ Status(c)' = "granted" /\ Owner(c)' /\ (made' <=> made)

\* What the steps of CreateUser have in common.
OwnStep(c) ==
  /\ DOMAIN calls' = DOMAIN calls
  /\ calls'[c].request = calls[c].request
  /\ \A d \in DOMAIN calls : d # c => calls'[d] = calls[d]
  /\ \A u \in Users : u # NameOf(c) => accounts'[u] = accounts[u]
  /\ calls[c].pc # "ok"

\* A step that moves the program counter only.
LEMMA GoStatus ==
  ASSUME IInv, NEW c \in DOMAIN calls, NEW pc \in Steps \cup Rollback \cup Over, Go(c, pc)
  PROVE  /\ DOMAIN calls' = DOMAIN calls
         /\ \A d \in DOMAIN calls : d # c => calls'[d] = calls[d]
         /\ calls'[c].pc = pc /\ calls'[c].uid = calls[c].uid /\ calls'[c].request = calls[c].request
<1> DEFINE call == [calls[c] EXCEPT !.pc = pc]
<1>1. Becomes(c, call) /\ call.pc = pc /\ call.uid = calls[c].uid /\ call.request = calls[c].request
  BY GoEffect
<1> HIDE DEF call
<1> QED BY <1>1 DEF Becomes

\* One that fails in the rollback.
LEMMA TornStatus ==
  ASSUME IInv, NEW c \in DOMAIN calls, NEW pc \in {"delete", "failed"},
         calls' = [calls EXCEPT ![c].pc = pc, ![c].torn = TRUE]
  PROVE  /\ DOMAIN calls' = DOMAIN calls
         /\ \A d \in DOMAIN calls : d # c => calls'[d] = calls[d]
         /\ calls'[c].pc = pc /\ calls'[c].uid = calls[c].uid /\ calls'[c].request = calls[c].request
<1>1. calls[c] \in Call
  BY Entry
<1> QED BY <1>1 DEF Call

LEMMA MakingStatus ==
  ASSUME IInv, NEW c \in DOMAIN calls, CreateAccount(c) \/ SetPassword(c) \/ SetAutomaticLogin(c)
  PROVE  /\ OwnStep(c) /\ BookEffect(c)
         /\ calls'[c].pc \in Rollback /\ calls'[c].uid => Faults
<1>0. /\ calls[c] \in Call /\ UidOf(calls[c]) /\ NameOf(c) \in Users
      /\ accounts[NameOf(c)] \in Account /\ accounts \in [Users -> Account]
  BY Entry DEF IInv, ServiceTypeOK
<1>1. Owner(c) => accounts[NameOf(c)].made
  BY DEF IInv, OwnersOK
<1>2. PICK account \in Account, next \in {"password", "uid", "host"} :
        /\ SetAccount(c, account, next)
        /\ account.made
        /\ \/ calls[c].pc = "create" /\ next = "password" /\ ~accounts[NameOf(c)].made
           \/ calls[c].pc = "password" /\ next = "uid"
           \/ calls[c].pc = "login" /\ next = "host"
  <2>1. NewAccount \in Account /\ NewAccount.made
    BY DEF NewAccount, NoAccount, Account
  <2>2. calls[c].pc \in {"password", "login"} => accounts[NameOf(c)].made
    BY <1>0, <1>1 DEF Owner, UidOf
  <2>3. CASE CreateAccount(c)
    BY <2>1, <2>3 DEF CreateAccount, NameOf
  <2>4. CASE SetPassword(c)
    <3> DEFINE account == [accounts[NameOf(c)] EXCEPT !.secret = calls[c].request.secret]
    <3>1. account \in Account /\ account.made
      BY <1>0, <2>2, <2>4, Entry DEF Account, Request, SetPassword
    <3>2. SetAccount(c, account, "uid") /\ calls[c].pc = "password"
      BY <2>4 DEF SetPassword, NameOf
    <3> HIDE DEF account
    <3> QED BY <3>1, <3>2
  <2>5. CASE SetAutomaticLogin(c)
    <3> DEFINE account == [accounts[NameOf(c)] EXCEPT !.login = TRUE]
    <3>1. account \in Account /\ account.made
      BY <1>0, <2>2, <2>5 DEF Account, SetAutomaticLogin
    <3>2. SetAccount(c, account, "host") /\ calls[c].pc = "login"
      BY <2>5 DEF SetAutomaticLogin, NameOf
    <3> HIDE DEF account
    <3> QED BY <3>1, <3>2
  <2> QED BY <2>3, <2>4, <2>5
<1>3. PICK pc \in {next, "compare"} :
        /\ Go(c, pc)
        /\ pc = "compare" => Faults
        /\ \/ accounts' = [accounts EXCEPT ![NameOf(c)] = account]
           \/ pc = "compare" /\ UNCHANGED accounts
  BY <1>2 DEF SetAccount, NameOf
<1>4. /\ DOMAIN calls' = DOMAIN calls
      /\ \A d \in DOMAIN calls : d # c => calls'[d] = calls[d]
      /\ calls'[c].pc = pc /\ calls'[c].uid = calls[c].uid /\ calls'[c].request = calls[c].request
  BY <1>3, GoStatus DEF Steps, Rollback
<1>5. /\ \A u \in Users : u # NameOf(c) => accounts'[u] = accounts[u]
      /\ accounts'[NameOf(c)].made \/ (pc = "compare" /\ UNCHANGED accounts)
  BY <1>0, <1>2, <1>3
<1>6. OwnStep(c)
  BY <1>2, <1>4, <1>5 DEF OwnStep
<1>7. NameOf(c)' = NameOf(c)
  BY <1>4 DEF NameOf
<1>8. BookEffect(c)
  <2>1. CASE calls[c].pc = "create"
    BY <1>0, <1>2, <1>3, <1>4, <1>5, <1>7, <2>1 DEF BookEffect, Status, Owner, UidOf
  <2>2. CASE calls[c].pc = "password"
    BY <1>0, <1>1, <1>2, <1>3, <1>4, <1>5, <1>7, <2>2 DEF BookEffect, Status, Owner, UidOf
  <2>3. CASE calls[c].pc = "login"
    BY <1>0, <1>1, <1>2, <1>3, <1>4, <1>5, <1>7, <2>3 DEF BookEffect, Status, Owner, UidOf
  <2> QED BY <1>2, <2>1, <2>2, <2>3
<1> QED BY <1>2, <1>3, <1>4, <1>6, <1>8 DEF Rollback

LEMMA ReadingStatus ==
  ASSUME IInv, NEW c \in DOMAIN calls,
         ReadHostName(c) \/ RefuseAccount(c) \/ ReadUid(c) \/ SetStaticHostname(c)
  PROVE  /\ OwnStep(c) /\ BookEffect(c)
         /\ calls'[c].pc \in Rollback /\ calls'[c].uid => Faults
<1>0. calls[c] \in Call /\ UidOf(calls[c]) /\ UNCHANGED accounts
  BY Entry DEF ReadHostName, RefuseAccount, ReadUid, SetStaticHostname
<1>1. Owner(c) => accounts[NameOf(c)].made
  BY DEF IInv, OwnersOK
<1>2. /\ DOMAIN calls' = DOMAIN calls
      /\ \A d \in DOMAIN calls : d # c => calls'[d] = calls[d]
      /\ calls'[c].request = calls[c].request
      /\ \/ calls[c].pc = "read" /\ calls'[c].pc = "create" /\ calls'[c].uid = calls[c].uid
         \/ Faults /\ calls[c].pc = "read" /\ calls'[c].pc = "failed" /\ calls'[c].uid = calls[c].uid
         \/ /\ calls[c].pc = "create" /\ accounts[NameOf(c)].made
            /\ calls'[c].pc = "compare" /\ calls'[c].uid = calls[c].uid
         \/ calls[c].pc = "uid" /\ calls'[c].pc = "login" /\ calls'[c].uid
         \/ Faults /\ calls[c].pc = "uid" /\ calls'[c].pc = "compare" /\ calls'[c].uid = calls[c].uid
         \/ calls[c].pc = "host" /\ calls'[c].pc = "ok" /\ calls'[c].uid = calls[c].uid
         \/ Faults /\ calls[c].pc = "host" /\ calls'[c].pc = "compare" /\ calls'[c].uid = calls[c].uid
  <2>1. CASE calls' = [calls EXCEPT ![c].pc = "create", ![c].initial = hostname] /\ calls[c].pc = "read"
    BY <1>0, <2>1 DEF Call
  <2>2. CASE calls' = [calls EXCEPT ![c].pc = "login", ![c].uid = TRUE] /\ calls[c].pc = "uid"
    BY <1>0, <2>2 DEF Call
  <2>3. ASSUME NEW pc \in {"failed", "compare", "ok"}, Go(c, pc)
        PROVE  /\ DOMAIN calls' = DOMAIN calls
               /\ \A d \in DOMAIN calls : d # c => calls'[d] = calls[d]
               /\ calls'[c].pc = pc /\ calls'[c].uid = calls[c].uid /\ calls'[c].request = calls[c].request
    BY <2>3, GoStatus DEF Rollback, Over
  <2> QED BY <2>1, <2>2, <2>3 DEF ReadHostName, RefuseAccount, ReadUid, SetStaticHostname, NameOf
<1>3. NameOf(c)' = NameOf(c)
  BY <1>2 DEF NameOf
<1>4. OwnStep(c)
  BY <1>0, <1>2 DEF OwnStep
<1>5. BookEffect(c)
  BY <1>0, <1>1, <1>2, <1>3 DEF BookEffect, Status, Owner, UidOf
<1> QED BY <1>0, <1>2, <1>4, <1>5 DEF UidOf, Rollback

LEMMA RollbackStatus ==
  ASSUME IInv, FaultOK, NEW c \in DOMAIN calls,
         CompareHostName(c) \/ RestoreHostName(c) \/ DeleteAccount(c)
  PROVE  /\ OwnStep(c) /\ BookEffect(c)
         /\ calls'[c].pc \in Rollback /\ calls'[c].uid => Faults
<1>0. /\ calls[c] \in Call /\ UidOf(calls[c]) /\ NameOf(c) \in Users
      /\ accounts \in [Users -> Account]
  BY Entry DEF IInv, ServiceTypeOK
<1>1. calls[c].uid => Faults
  BY DEF FaultOK, Rollback, CompareHostName, RestoreHostName, DeleteAccount
<1>2. AfterHost(c) = IF calls[c].uid THEN "delete" ELSE "failed"
  BY DEF AfterHost
<1>3. ASSUME NEW pc \in Rollback \cup Over,
             Go(c, pc) \/ (pc \in {"delete", "failed"} /\ calls' = [calls EXCEPT ![c].pc = pc, ![c].torn = TRUE])
      PROVE  /\ DOMAIN calls' = DOMAIN calls
             /\ \A d \in DOMAIN calls : d # c => calls'[d] = calls[d]
             /\ calls'[c].pc = pc /\ calls'[c].uid = calls[c].uid /\ calls'[c].request = calls[c].request
  BY <1>3, GoStatus, TornStatus
<1>4. /\ DOMAIN calls' = DOMAIN calls
      /\ \A d \in DOMAIN calls : d # c => calls'[d] = calls[d]
      /\ calls'[c].uid = calls[c].uid /\ calls'[c].request = calls[c].request
      /\ \/ /\ calls[c].pc \in {"compare", "restore"} /\ UNCHANGED accounts
            /\ \/ calls'[c].pc = "restore"
               \/ calls'[c].pc = "delete" /\ calls[c].uid
               \/ calls'[c].pc = "failed"
         \/ calls[c].pc = "delete" /\ calls'[c].pc = "failed"
  <2>1. CASE CompareHostName(c)
    BY <1>2, <1>3, <2>1 DEF CompareHostName, Rollback, Over
  <2>2. CASE RestoreHostName(c)
    BY <1>2, <1>3, <2>2 DEF RestoreHostName, Rollback, Over
  <2>3. CASE DeleteAccount(c)
    BY <1>3, <2>3 DEF DeleteAccount, Over
  <2> QED BY <2>1, <2>2, <2>3
<1>5. \A u \in Users : u # NameOf(c) => accounts'[u] = accounts[u]
  BY <1>0 DEF CompareHostName, RestoreHostName, DeleteAccount, NameOf
<1>6. NameOf(c)' = NameOf(c)
  BY <1>4 DEF NameOf
<1>7. OwnStep(c)
  BY <1>4, <1>5 DEF OwnStep
<1>8. BookEffect(c)
  BY <1>0, <1>1, <1>4, <1>6 DEF BookEffect, Status, Owner, UidOf
<1> QED BY <1>1, <1>4, <1>7, <1>8

\* The request of the step is the only one that the book shows another status of.
LEMMA RequestsMove ==
  ASSUME NEW c \in DOMAIN calls, OwnStep(c)
  PROVE  /\ BookRequests' = [BookRequests EXCEPT ![c].status = Status(c)']
         /\ c \in DOMAIN BookRequests
         /\ BookRequests[c].status = Status(c)
         /\ BookRequests[c].request = calls[c].request
<1>1. \A d \in DOMAIN calls : d # c => calls'[d].request = calls[d].request /\ Status(d)' = Status(d)
  BY DEF OwnStep, Status, Owner
<1>2. DOMAIN calls' = DOMAIN calls /\ calls'[c].request = calls[c].request
  BY DEF OwnStep
<1> QED BY <1>1, <1>2 DEF BookRequests

\* Likewise with its name, whose state depends on the account and its owner.
LEMMA NamesMove ==
  ASSUME IInv, NEW c \in DOMAIN calls, OwnStep(c), NEW n \in Users, n = NameOf(c)
  PROVE  /\ BookNames' = [BookNames EXCEPT ![n] = NameState(n)']
         /\ BookNames[n] = NameState(n)
<1>1. ASSUME NEW u \in Users, u # n
      PROVE  NameState(u)' = NameState(u)
  <2>1. \A d \in DOMAIN calls :
          (calls'[d].request.user = u /\ Owner(d)') <=> (calls[d].request.user = u /\ Owner(d))
    BY <1>1 DEF OwnStep, Owner, NameOf
  <2>2. accounts'[u] = accounts[u] /\ DOMAIN calls' = DOMAIN calls
    BY <1>1 DEF OwnStep
  <2> QED BY <2>1, <2>2 DEF NameState
<1> QED BY <1>1 DEF BookNames

\* Taken while a request owns it, free while it has no account, else left.
NamesOK ==
  \A c \in DOMAIN calls : \A n \in Users : n = NameOf(c) =>
    /\ Owner(c) => NameState(n) = "taken"
    /\ ~accounts[n].made => NameState(n) = "free"
    /\ accounts[n].made => NameState(n) # "free"
    /\ n \notin Existing /\ accounts[n].made
       /\ (\A d \in DOMAIN calls : Owner(d) => NameOf(d) # n) => NameState(n) = "left"

BookOK == NamesOK /\ AccountsAreKept

LEMMA BookShape == IInv => BookOK
<1> SUFFICES ASSUME IInv PROVE BookOK
  OBVIOUS
<1>1. ASSUME NEW c \in DOMAIN calls, NEW n \in Users, n = NameOf(c)
      PROVE  /\ Owner(c) => NameState(n) = "taken"
             /\ ~accounts[n].made => NameState(n) = "free"
             /\ accounts[n].made => NameState(n) # "free"
             /\ n \notin Existing /\ accounts[n].made
                /\ (\A d \in DOMAIN calls : Owner(d) => NameOf(d) # n) => NameState(n) = "left"
  <2>1. n \in Existing => accounts[n].made /\ ~Owner(c)
    BY <1>1 DEF IInv, ImageOK, OwnersOK, NewAccount, NoAccount
  <2>2. Owner(c) => accounts[n].made
    BY <1>1 DEF IInv, OwnersOK
  <2> QED BY <1>1, <2>1, <2>2 DEF NameState, NameOf
<1> QED BY <1>1, OwnersKeepAccounts DEF BookOK, NamesOK

\* What somebody was promised is not touched, and a request is promised all.
LEMMA PromisesMove ==
  ASSUME IInv, BookOK, BookOK', NEW c \in DOMAIN calls, OwnStep(c)
  PROVE  BookAccounts' = IF Status(c)' = "granted"
                         THEN [BookAccounts EXCEPT ![NameOf(c)] = Complete(calls[c].request)]
                         ELSE BookAccounts
<1>1. AccountsAreKept /\ AccountsAreKept'
  BY DEF BookOK
<1>2. NameOf(c) \in Users /\ NameOf(c)' = NameOf(c) /\ DOMAIN calls' = DOMAIN calls
  BY Entry DEF OwnStep, NameOf
<1>3. Status(c)' = "granted" <=> calls'[c].pc = "ok"
  BY DEF Status
<1>4. ASSUME NEW u \in Users, u # NameOf(c) \/ calls'[c].pc # "ok"
      PROVE  (Promised(u)' <=> Promised(u)) /\ (Promised(u) => accounts'[u] = accounts[u])
  <2>1. \A d \in DOMAIN calls :
          (calls'[d].request.user = u /\ calls'[d].pc = "ok") <=> (calls[d].request.user = u /\ calls[d].pc = "ok")
    BY <1>4 DEF OwnStep, NameOf
  <2>2. ASSUME NEW d \in DOMAIN calls, calls[d].request.user = u, calls[d].pc = "ok"
        PROVE  accounts'[u] = accounts[u]
    <3>1. d # c /\ calls'[d] = calls[d]
      BY <2>2 DEF OwnStep
    <3> QED BY <1>1, <1>2, <2>2, <3>1 DEF AccountsAreKept
  <2>3. u \in Existing => accounts'[u] = accounts[u]
    BY <1>1 DEF AccountsAreKept
  <2> QED BY <1>2, <2>1, <2>2, <2>3 DEF Promised
<1>5. ASSUME calls'[c].pc = "ok"
      PROVE  Promised(NameOf(c))' /\ accounts'[NameOf(c)] = Complete(calls[c].request)
  <2>1. calls'[c].request = calls[c].request
    BY DEF OwnStep
  <2>2. accounts'[NameOf(c)] = Complete(calls[c].request)
    BY <1>1, <1>2, <1>5, <2>1 DEF AccountsAreKept, NameOf
  <2> QED BY <1>2, <1>5, <2>1, <2>2 DEF Promised, NameOf
<1>6. CASE calls'[c].pc = "ok"
  <2>1. \A u \in Users \ {NameOf(c)} : (Promised(u)' <=> Promised(u)) /\ (Promised(u) => accounts'[u] = accounts[u])
    BY <1>4
  <2>2. Promised(NameOf(c))' /\ accounts'[NameOf(c)] = Complete(calls[c].request)
    BY <1>5, <1>6
  <2> QED BY <1>2, <1>3, <1>6, <2>1, <2>2 DEF BookAccounts
<1>7. CASE calls'[c].pc # "ok"
  BY <1>3, <1>4, <1>7 DEF BookAccounts
<1> QED BY <1>6, <1>7

\* A step of CreateUser or of its rollback is one of the book, or none.
LEMMA ServeBook ==
  ASSUME IInv, IInv', BookOK, BookOK', NEW c \in DOMAIN calls, OwnStep(c), BookEffect(c)
  PROVE  [Book!Next]_Book!vars
<1>0. PICK n \in Users : n = NameOf(c)
  BY Entry
<1>1. /\ BookRequests' = [BookRequests EXCEPT ![c].status = Status(c)']
      /\ c \in DOMAIN BookRequests
      /\ BookRequests[c].status = Status(c)
      /\ BookRequests[c].request = calls[c].request
  BY RequestsMove
<1>2. /\ BookNames' = [BookNames EXCEPT ![n] = NameState(n)']
      /\ BookNames[n] = NameState(n)
      /\ n = BookRequests[c].request.user
  BY <1>0, <1>1, NamesMove DEF NameOf
<1>3. BookAccounts' = IF Status(c)' = "granted"
                      THEN [BookAccounts EXCEPT ![n] = Complete(calls[c].request)] ELSE BookAccounts
  BY <1>0, PromisesMove
<1>4. NameOf(c)' = n /\ c \in DOMAIN calls' /\ DOMAIN calls' = DOMAIN calls
  BY <1>0 DEF OwnStep, NameOf
<1>5. /\ Owner(c) => NameState(n) = "taken" /\ n \notin Existing
      /\ ~accounts[n].made => NameState(n) = "free" /\ n \notin Existing
      /\ accounts[n].made => NameState(n) # "free"
  BY <1>0 DEF BookOK, NamesOK, IInv, OwnersOK, ImageOK, NewAccount, NoAccount
<1>6. /\ Owner(c)' => NameState(n)' = "taken"
      /\ ~accounts'[n].made => NameState(n)' = "free"
      /\ n \notin Existing /\ accounts'[n].made
         /\ (\A d \in DOMAIN calls' : Owner(d)' => NameOf(d)' # n)
         => NameState(n)' = "left"
  BY <1>4 DEF BookOK, NamesOK
<1>7. \A d \in DOMAIN calls' : d # c => (Owner(d)' <=> Owner(d)) /\ NameOf(d)' = NameOf(d) /\ d \in DOMAIN calls
  BY DEF OwnStep, Owner, NameOf
<1>8. ASSUME ~Owner(c)', Owner(c) \/ ~accounts[n].made
      PROVE  \A d \in DOMAIN calls' : Owner(d)' => NameOf(d)' # n
  BY <1>0, <1>7, <1>8 DEF IInv, OwnersOK
<1>9. ASSUME ~Owner(c), ~Owner(c)', accounts'[n].made <=> accounts[n].made
      PROVE  NameState(n)' = NameState(n)
  <2>1. \A d \in DOMAIN calls :
          (calls'[d].request.user = n /\ Owner(d)') <=> (calls[d].request.user = n /\ Owner(d))
    BY <1>4, <1>7, <1>9 DEF NameOf
  <2> QED BY <1>4, <1>9, <2>1 DEF NameState
<1>10. NameState(n)' = NameState(n) => UNCHANGED BookNames
  BY <1>2 DEF BookNames
<1>11. Status(c)' = Status(c) => UNCHANGED BookRequests
  BY <1>1 DEF BookRequests
<1> DEFINE made == accounts[n].made
<1>12. CASE Status(c)' = Status(c) /\ (Owner(c)' <=> Owner(c)) /\ (accounts'[n].made <=> made)
  <2>1. UNCHANGED BookNames /\ UNCHANGED BookRequests
    BY <1>5, <1>6, <1>9, <1>10, <1>11, <1>12
  <2>2. Status(c) # "granted"
    BY DEF OwnStep, Status
  <2> QED BY <1>3, <1>12, <2>1, <2>2 DEF Book!vars
<1>13. CASE /\ Status(c) = "asked" /\ ~Owner(c) /\ ~made
            /\ Status(c)' = "holding" /\ Owner(c)' /\ accounts'[n].made
  <2>1. Book!Take(c)
    BY <1>1, <1>2, <1>3, <1>5, <1>6, <1>13
    DEF Book!Take, Book!Is, Book!Becomes, Book!Name, Book!NameBecomes
  <2> QED BY <1>1, <2>1 DEF Book!Next
<1>14. CASE /\ Status(c) = "asked" /\ ~Owner(c) /\ (made \/ Faults)
            /\ Status(c)' \in {"failing", "failed"} /\ ~Owner(c)' /\ (accounts'[n].made <=> made)
  <2>1. Book!Refuse(c)
    BY <1>1, <1>2, <1>3, <1>5, <1>9, <1>10, <1>14
    DEF Book!Refuse, Book!Is, Book!Becomes, Book!Name, Book!NameBecomes
  <2> QED BY <1>1, <2>1 DEF Book!Next
<1>15. CASE /\ Faults
            /\ (Status(c) = "asked" /\ ~Owner(c) /\ ~made) \/ (Status(c) = "holding" /\ Owner(c))
            /\ Status(c)' = "failing" /\ ~Owner(c)' /\ accounts'[n].made
  <2>1. NameState(n)' = "left"
    BY <1>5, <1>6, <1>8, <1>15
  <2>2. Book!Lose(c)
    BY <1>1, <1>2, <1>3, <1>5, <1>15, <2>1
    DEF Book!Lose, Book!Is, Book!Becomes, Book!Name, Book!NameBecomes
  <2> QED BY <1>1, <2>2 DEF Book!Next
<1>16. CASE /\ Faults
            /\ Status(c) = "holding" /\ Owner(c)
            /\ Status(c)' = "failed" /\ ~Owner(c)'
  <2>1. NameState(n)' \in {"free", "left"}
    BY <1>5, <1>6, <1>8, <1>16
  <2>2. Book!Undo(c)
    BY <1>1, <1>2, <1>3, <1>16, <2>1
    DEF Book!Undo, Book!Is, Book!Becomes, Book!Name, Book!NameBecomes
  <2> QED BY <1>1, <2>2 DEF Book!Next
<1>17. CASE /\ Status(c) = "failing" /\ ~Owner(c)
            /\ Status(c)' = "failed" /\ ~Owner(c)' /\ (accounts'[n].made <=> made)
  <2>1. Book!Fail(c)
    BY <1>1, <1>3, <1>9, <1>10, <1>17 DEF Book!Fail, Book!Is, Book!Becomes
  <2> QED BY <1>1, <2>1 DEF Book!Next
<1>18. CASE /\ Status(c) = "holding" /\ Owner(c)
            /\ Status(c)' = "granted" /\ Owner(c)' /\ (accounts'[n].made <=> made)
  <2>1. Book!Grant(c)
    BY <1>1, <1>2, <1>3, <1>5, <1>6, <1>10, <1>18
    DEF Book!Grant, Book!Is, Book!Becomes, Complete
  <2> QED BY <1>1, <2>1 DEF Book!Next
<1> QED BY <1>0, <1>4, <1>12, <1>13, <1>14, <1>15, <1>16, <1>17, <1>18 DEF BookEffect

\* A request that arrives is a new one of the book.
LEMMA BeginBook ==
  ASSUME IInv, NEW request \in Requests, Begin(request)
  PROVE  Book!Next
<1> DEFINE call == [request |-> request, pc |-> "read", initial |-> InitialHost,
                    uid |-> FALSE, torn |-> FALSE]
           entry == [request |-> request, status |-> "asked"]
<1>1. call \in Call /\ call.pc = "read" /\ ~call.uid /\ call.request = request
  BY RequestsAssumption DEF Call, Steps
<1>2. calls \in Seq(Call) /\ calls' = Append(calls, call) /\ UNCHANGED accounts
  BY DEF IInv, ServiceTypeOK, Begin
<1> HIDE DEF call
<1>0. PICK n \in Nat : n = Len(calls)
  BY <1>2, LenProperties
<1>3. /\ DOMAIN calls = 1..n
      /\ DOMAIN calls' = 1..(n + 1)
      /\ \A i \in 1..n : calls'[i] = calls[i]
      /\ calls'[n + 1] = call
  BY <1>0, <1>1, <1>2, AppendProperties, LenProperties
<1>4. \A i \in 1..n : Status(i)' = Status(i) /\ (Owner(i)' <=> Owner(i))
  BY <1>3 DEF Status, Owner
<1>5. Status(n + 1)' = "asked" /\ ~Owner(n + 1)'
  BY <1>1, <1>3 DEF Status, Owner
<1>6. BookRequests' = Append(BookRequests, entry)
  <2>1. BookRequests = [i \in 1..n |-> [request |-> calls[i].request, status |-> Status(i)]]
    BY <1>3 DEF BookRequests
  <2>2. BookRequests \in Seq([request : Requests, status : {"asked", "holding", "failing", "granted", "failed"}])
        /\ Len(BookRequests) = n
    <3>1. \A i \in 1..n : calls[i].request \in Requests
      BY <1>2, <1>3, EntryIsCall DEF Call
    <3>2. \A i \in 1..n : Status(i) \in {"asked", "holding", "failing", "granted", "failed"}
      BY DEF Status
    <3> QED BY <1>3, <2>1, <3>1, <3>2, IsASeq, LenProperties
  <2>3. entry \in [request : Requests, status : {"asked", "holding", "failing", "granted", "failed"}]
    OBVIOUS
  <2>4. Append(BookRequests, entry) =
          [i \in 1..(n + 1) |-> IF i <= n THEN BookRequests[i] ELSE entry]
    BY <1>3, <2>2, <2>3
  <2>5. BookRequests' = [i \in 1..(n + 1) |-> [request |-> calls'[i].request, status |-> Status(i)']]
    BY <1>3 DEF BookRequests
  <2>6. ASSUME NEW i \in 1..(n + 1)
        PROVE  [request |-> calls'[i].request, status |-> Status(i)']
                 = IF i <= n THEN BookRequests[i] ELSE entry
    <3>1. CASE i <= n
      BY <1>3, <1>4, <2>1, <3>1
    <3>2. CASE i = n + 1
      BY <1>1, <1>3, <1>5, <3>2
    <3> QED BY <1>3, <3>1, <3>2
  <2> QED BY <2>4, <2>5, <2>6
<1>7. UNCHANGED BookNames
  <2>1. \A u : (\E i \in DOMAIN calls' : calls'[i].request.user = u /\ Owner(i)')
               <=> \E i \in DOMAIN calls : calls[i].request.user = u /\ Owner(i)
    BY <1>3, <1>4, <1>5
  <2>2. ASSUME NEW u \in Users PROVE NameState(u)' = NameState(u)
    BY <1>2, <2>1 DEF NameState
  <2> QED BY <2>2 DEF BookNames
<1>8. UNCHANGED BookAccounts
  <2>1. \A u : Promised(u)' <=> Promised(u)
    BY <1>1, <1>3 DEF Promised
  <2> QED BY <1>2, <2>1 DEF BookAccounts
<1> QED BY <1>6, <1>7, <1>8 DEF Book!Next, Book!Ask

LEMMA FaultStep ==
  ASSUME IInv, FaultOK, [ServiceNext]_serviceVars
  PROVE  FaultOK'
<1>1. CASE UNCHANGED serviceVars
  BY <1>1 DEF serviceVars, FaultOK
<1>2. ASSUME NEW request \in Requests, Begin(request)
      PROVE  FaultOK'
  <2>1. PICK n \in Nat : /\ DOMAIN calls' = DOMAIN calls \cup {n}
                         /\ \A d \in DOMAIN calls : calls'[d] = calls[d]
                         /\ calls'[n].pc = "read"
    BY <1>2, NewEntry
  <2>2. "read" \notin Rollback
    BY DEF Rollback
  <2> QED BY <2>1, <2>2, Zenon DEF FaultOK
<1>3. ASSUME NEW c \in DOMAIN calls, Serve(c)
      PROVE  FaultOK'
  <2>1. OwnStep(c) /\ (calls'[c].pc \in Rollback /\ calls'[c].uid => Faults)
    BY <1>3, MakingStatus, ReadingStatus, RollbackStatus DEF Serve
  <2> QED BY <2>1 DEF OwnStep, FaultOK
<1> QED BY <1>1, <1>2, <1>3 DEF ServiceNext

LEMMA BookStep ==
  ASSUME IInv, IInv', BookOK, BookOK', FaultOK, [ServiceNext]_serviceVars
  PROVE  [Book!Next]_Book!vars
<1>1. CASE UNCHANGED serviceVars
  <2>1. UNCHANGED BookNames
    <3>1. ASSUME NEW u \in Users PROVE NameState(u)' = NameState(u)
      BY <1>1 DEF serviceVars, NameState, Owner
    <3> QED BY <3>1 DEF BookNames
  <2>2. UNCHANGED BookRequests
    BY <1>1 DEF serviceVars, BookRequests, Status, Owner
  <2>3. UNCHANGED BookAccounts
    BY <1>1 DEF serviceVars, BookAccounts, Promised
  <2> QED BY <2>1, <2>2, <2>3 DEF Book!vars
<1>2. CASE \E request \in Requests : Begin(request)
  BY <1>2, BeginBook
<1>3. ASSUME NEW c \in DOMAIN calls, Serve(c)
      PROVE  [Book!Next]_Book!vars
  <2>1. OwnStep(c) /\ BookEffect(c)
    BY <1>3, MakingStatus, ReadingStatus, RollbackStatus DEF Serve
  <2> QED BY <2>1, ServeBook
<1> QED BY <1>1, <1>2, <1>3 DEF ServiceNext

LEMMA BookInit == ServiceInit => Book!Init
<1> SUFFICES ASSUME ServiceInit PROVE Book!Init
  OBVIOUS
<1>1. calls = <<>> /\ DOMAIN calls = {}
  BY EmptySeq, LenProperties DEF ServiceInit
<1>2. BookRequests = <<>>
  BY <1>1 DEF BookRequests
<1>3. BookNames = [u \in Users |-> IF u \in Existing THEN "image" ELSE "free"]
  BY <1>1 DEF BookNames, NameState, ServiceInit, NoAccount
<1>4. BookAccounts = [u \in Users |-> IF u \in Existing THEN NewAccount ELSE NoAccount]
  <2>1. ASSUME NEW u \in Users
        PROVE  /\ Promised(u) <=> u \in Existing
               /\ u \in Existing => accounts[u] = NewAccount
    BY <1>1 DEF Promised, ServiceInit
  <2> QED BY <2>1 DEF BookAccounts
<1> QED BY <1>2, <1>3, <1>4 DEF Book!Init, NewAccount

\* Any client, any number of overlapping requests, whatever fails: the seven calls
\* on the bus and the deferred rollback of CreateUser come to taking a name and
\* being granted it or giving it back, so that UserService implements Accounts.
THEOREM ServiceKeepsBook == ServiceSpec => AccountsSpec
<1>1. ServiceInit => FaultOK
  <2> SUFFICES ASSUME ServiceInit PROVE FaultOK
    OBVIOUS
  <2>1. DOMAIN calls = {}
    BY EmptySeq, LenProperties DEF ServiceInit
  <2> QED BY <2>1 DEF FaultOK
<1>2. IInv /\ FaultOK /\ [ServiceNext]_serviceVars => FaultOK'
  BY FaultStep
<1>3. IInv /\ IInv' /\ BookOK /\ BookOK' /\ FaultOK /\ [ServiceNext]_serviceVars => [Book!Next]_Book!vars
  BY BookStep
<1> QED BY <1>1, <1>2, <1>3, BookInit, BookShape, ServiceInductive, PTL
        DEF ServiceSpec, AccountsSpec, Book!Spec

\* The wizard is a client of the service like any other: what holds for
\* ServiceSpec holds for provd under this wizard.
LEMMA WizardStep ==
  ASSUME TypeOK, [Next]_vars
  PROVE  [ServiceNext]_serviceVars
<1>1. CASE SetIdentity
  BY <1>1 DEF SetIdentity, CanNext, ServiceNext, TypeOK
<1>2. CASE ServeCall
  BY <1>2 DEF ServeCall, ServiceNext
<1> QED BY <1>1, <1>2 DEF Next, vars, Type, ValidateUsername, KeepIdentity, Answer, Walk,
                          LaunchDesktopSession, SessionAnswer, Close

\* A remembered identity has been sent, and nobody passes the identity page
\* without one.
SavedOK ==
  /\ DOMAIN calls # {} => saved # NoIdentity
  /\ saved # NoIdentity => \E c \in DOMAIN calls : calls[c].request = saved
  /\ page \in Past => saved # NoIdentity

WInv == IInv /\ TypeOK /\ SavedOK

\* Steps of the service move one program counter or field, never a request.
LEMMA ServeKeepsRequests ==
  ASSUME calls \in Seq(Call), NEW c \in DOMAIN calls, Serve(c)
  PROVE  /\ DOMAIN calls' = DOMAIN calls
         /\ \A d \in DOMAIN calls : calls'[d].request = calls[d].request
<1>1. calls[c] \in Call
  BY EntryIsCall
<1>2. \A pc : Go(c, pc) => /\ DOMAIN calls' = DOMAIN calls
                          /\ \A d \in DOMAIN calls : calls'[d].request = calls[d].request
  BY <1>1 DEF Go, Call
<1>3. \A pc : calls' = [calls EXCEPT ![c].pc = pc, ![c].torn = TRUE] =>
                          /\ DOMAIN calls' = DOMAIN calls
                          /\ \A d \in DOMAIN calls : calls'[d].request = calls[d].request
  BY <1>1 DEF Call
<1>4. CASE ReadHostName(c) \/ ReadUid(c)
  BY <1>1, <1>2, <1>4 DEF ReadHostName, ReadUid, Call
<1>5. CASE CreateAccount(c) \/ SetPassword(c) \/ SetAutomaticLogin(c)
  BY <1>2, <1>5 DEF CreateAccount, SetPassword, SetAutomaticLogin, SetAccount
<1>6. CASE RefuseAccount(c) \/ SetStaticHostname(c)
  BY <1>2, <1>6 DEF RefuseAccount, SetStaticHostname
<1>7. CASE CompareHostName(c) \/ RestoreHostName(c) \/ DeleteAccount(c)
  BY <1>2, <1>3, <1>7 DEF CompareHostName, RestoreHostName, DeleteAccount
<1> QED BY <1>4, <1>5, <1>6, <1>7 DEF Serve

\* The request of the identity page is the newest one.
LEMMA SetIdentityStep ==
  ASSUME WInv, SetIdentity
  PROVE  WInv'
<1>1. typed \in Requests /\ typed # NoIdentity /\ calls \in Seq(Call)
  BY DEF WInv, TypeOK, SetIdentity, CanNext, ServiceTypeOK
<1>2. IInv'
  BY <1>1, BeginStep DEF WInv, SetIdentity
<1> DEFINE call == [request |-> typed, pc |-> "read", initial |-> InitialHost,
                    uid |-> FALSE, torn |-> FALSE]
<1>3. call \in Call /\ calls' = Append(calls, call) /\ call.request = typed
  BY <1>1, RequestsAssumption DEF SetIdentity, Begin, Call, Steps
<1> HIDE DEF call
<1>4. /\ Len(calls') = Len(calls) + 1
      /\ calls'[Len(calls) + 1] = call
      /\ DOMAIN calls' = 1..(Len(calls) + 1)
      /\ Len(calls) \in Nat
  BY <1>1, <1>3, AppendProperties, LenProperties
<1>5. Len(calls') \in DOMAIN calls' /\ calls'[Len(calls')].request = saved' /\ saved' = typed
  BY <1>3, <1>4 DEF SetIdentity
<1>6. TypeOK'
  BY <1>1, <1>2, <1>5 DEF TypeOK, WInv, IInv, SetIdentity
<1>7. SavedOK'
  BY <1>1, <1>5 DEF SavedOK
<1> QED BY <1>2, <1>6, <1>7 DEF WInv

\* Steps of the pages.
LEMMA PageStep ==
  ASSUME WInv, \/ \E identity \in Requests : Type(identity)
               \/ \E u \in Users : ValidateUsername(u)
               \/ KeepIdentity \/ Answer \/ Walk
               \/ LaunchDesktopSession \/ SessionAnswer \/ Close \/ UNCHANGED vars
  PROVE  WInv'
<1>0. UNCHANGED serviceVars
  BY DEF Type, ValidateUsername, KeepIdentity, Answer, Walk, LaunchDesktopSession, SessionAnswer,
         Close, vars
<1>1. IInv'
  BY <1>0, ServiceStep DEF WInv
<1>2. UNCHANGED calls /\ ServiceTypeOK'
  BY <1>0, <1>1 DEF IInv, serviceVars
<1>3. CASE (\E identity \in Requests : Type(identity)) \/ (\E u \in Users : ValidateUsername(u))
  <2>1. \A i \in Requests : i.user \in Users
    BY RequestsAssumption DEF Request
  <2>2. TypeOK' /\ UNCHANGED <<page, saved>>
    BY <1>2, <1>3, <2>1 DEF TypeOK, WInv, Type, ValidateUsername
  <2> QED BY <1>1, <1>2, <2>2 DEF WInv, SavedOK
<1>4. CASE KeepIdentity \/ Answer \/ Walk
  BY <1>1, <1>2, <1>4 DEF WInv, SavedOK, TypeOK, KeepIdentity, Answer, Walk, Move, Pages, Past, CanNext
<1>5. CASE UNCHANGED vars
  BY <1>1, <1>2, <1>5 DEF WInv, SavedOK, TypeOK, vars, wizardVars
<1>6. CASE LaunchDesktopSession \/ Close
  BY <1>1, <1>2, <1>6 DEF WInv, SavedOK, TypeOK, LaunchDesktopSession, Close, Move, Pages, Past, Sessions
<1>7. CASE SessionAnswer
  BY <1>1, <1>2, <1>7 DEF WInv, SavedOK, TypeOK, SessionAnswer, Sessions
<1> QED BY <1>3, <1>4, <1>5, <1>6, <1>7

\* The inductive invariant of the wizard with its service.
LEMMA WizardInductive == Spec => []WInv
<1>1. Init => WInv
  <2> SUFFICES ASSUME Init PROVE WInv
    OBVIOUS
  <2>1. calls = <<>> /\ calls \in Seq(Call) /\ DOMAIN calls = {}
    BY EmptySeq, LenProperties DEF Init, ServiceInit
  <2>2. NewAccount \in Account /\ NoAccount \in Account
    BY DEF NewAccount, NoAccount, Account
  <2>3. ServiceTypeOK /\ ImageOK
    BY <2>1, <2>2, RequestsAssumption DEF Init, ServiceInit, ServiceTypeOK, ImageOK
  <2> QED BY <2>1, <2>3 DEF WInv, IInv, UidOK, ProgressOK, OwnersOK, SavedOK, TypeOK, Init, Pages, Past, Sessions
<1>2. WInv /\ [Next]_vars => WInv'
  <2> SUFFICES ASSUME WInv, [Next]_vars PROVE WInv'
    OBVIOUS
  <2>1. CASE ServeCall
    <3>1. PICK c \in DOMAIN calls : Serve(c) /\ UNCHANGED wizardVars
      BY <2>1 DEF ServeCall
    <3>2. IInv'
      BY <3>1, ServiceStep DEF WInv, ServiceNext
    <3>3. /\ DOMAIN calls' = DOMAIN calls
          /\ \A d \in DOMAIN calls : calls'[d].request = calls[d].request
      BY <3>1, ServeKeepsRequests DEF WInv, IInv, ServiceTypeOK
    <3> QED BY <3>1, <3>2, <3>3 DEF WInv, IInv, TypeOK, SavedOK, wizardVars
  <2> QED BY <2>1, SetIdentityStep, PageStep DEF Next
<1> QED BY <1>1, <1>2, PTL DEF Spec

------------------------------------------------------------------------------
\* The state of the wizard and of its service stays well typed.
THEOREM TypeCorrect == Spec => []TypeOK
<1>1. WInv => TypeOK BY DEF WInv
<1> QED BY <1>1, WizardInductive, PTL

\* The wizard with provd implements the user service of ServiceSpec: Back, typing
\* and answers that nobody awaits are stutters or requests to it.
THEOREM WizardIsClient == Spec => ServiceSpec
<1>1. Init => ServiceInit BY DEF Init
<1> QED BY <1>1, WizardStep, TypeCorrect, PTL DEF Spec, ServiceSpec

\* Reported accounts and those of the image are kept under this wizard.
THEOREM AccountsKept == Spec => []AccountsAreKept
BY WizardIsClient, ServiceKeepsAccounts, PTL

\* Under this wizard, too, overlapping executions of CreateUser come to granting
\* or giving back whole accounts.
THEOREM WizardKeepsBook == Spec => AccountsSpec
BY WizardIsClient, ServiceKeepsBook

\* Past the identity page, when every request has succeeded, the identity of the
\* login has its account: no way through the pages leaves the wizard with an
\* identity that was never sent.
THEOREM LoginAccount == Spec => []LoginHasAccount
<1>1. WInv => LoginHasAccount
  <2> SUFFICES ASSUME WInv, page \in Past, \A c \in DOMAIN calls : calls[c].pc = "ok"
               PROVE  Verified
    BY DEF LoginHasAccount
  <2>1. PICK c \in DOMAIN calls : calls[c].request = saved
    BY DEF WInv, SavedOK
  <2>2. accounts[saved.user] = Complete(saved)
    BY <2>1, OwnersKeepAccounts DEF WInv, AccountsAreKept
  <2> QED BY <2>2 DEF Verified, Complete
<1> QED BY <1>1, WizardInductive, PTL
=============================================================================
