------------------------- MODULE ProvdDaemonProofs -------------------------
(***************************************************************************)
(* Proofs about ProvdDaemon, for any number of requests and launches, of   *)
(* starts and signals.  GdmInv is about requests and GDM, ProcessInv about *)
(* main, its signal handler and the socket; they meet in ServingOK, which  *)
(* says where the process is while a handler of a request runs.            *)
(***************************************************************************)
EXTENDS ProvdDaemon, TLAPS

\* Only a launch has a channel, and only while it is under way.
CallsOK ==
  \A r \in Requests :
    /\ Listens(r) => r \in Launches
    /\ calls[r].pc = "running" => r \notin Launches
    /\ calls[r].inbox # {} => Listens(r)
    /\ (\E s \in calls[r].inbox : s.kind = "SessionOpened") => opened # NoLaunch

\* While launches have not been mixed, GDM deals with the one under way: what
\* it reports is about this launch, and so is the session that it has open.
Verifies(r) ==
  Listens(r) =>
    /\ started[r] = 0
    /\ verifying.of \in {r, NoLaunch}
    /\ calls[r].pc = "start" => opened = r /\ <<r, r>> \in Fits
    /\ (\E s \in calls[r].inbox : s.kind = "SessionOpened") => opened = r /\ <<r, r>> \in Fits

OneByOne == \A r, s \in Requests : Listens(r) /\ Listens(s) => r = s

RightFits == verifying.stage = "right" => <<verifying.of, verifying.of>> \in Fits

StartedOnce(r) ==
  /\ calls[r].pc \in {"idle", "sent"} => started[r] = 0
  /\ calls[r].pc = "ok" => <<r, r>> \in Fits /\ started[r] = 1
  /\ started[r] > 0 => started[r] = 1 /\ <<r, r>> \in Fits

LaunchOK ==
  ~mixed => OneByOne /\ RightFits /\ \A r \in Launches : Verifies(r) /\ StartedOnce(r)

GdmInv == GdmTypeOK /\ CallsOK /\ LaunchOK

------------------------------------------------------------------------------
LEMMA QuietKeepsGdmInv ==
  ASSUME GdmInv, UNCHANGED <<calls, gdmVars>>
  PROVE  GdmInv'
  BY DEF GdmInv, GdmTypeOK, CallsOK, LaunchOK, OneByOne, RightFits, Verifies, StartedOnce, Listens, gdmVars

\* A request that ends without having been started, or is lost with provd.
LEMMA DropKeepsGdmInv ==
  ASSUME GdmInv, NEW pcs, pcs \in {{"sent"}, {"sent"} \cup Running}, Drop(pcs),
         \/ UNCHANGED gdmVars
         \/ /\ pcs = {"sent"} \cup Running
            /\ verifying' = Idle
            /\ opened' = NoLaunch
            /\ UNCHANGED <<started, mixed>>
  PROVE  GdmInv'
<1> USE LaunchesAssumption DEF GdmInv, GdmTypeOK
<1>1. calls' \in [Requests -> Call] /\ \A r \in Requests : calls'[r] = IF calls[r].pc \in pcs THEN Bare("unavailable") ELSE calls[r]
  BY DEF Drop, Call, Bare, Over, Running, InLaunch, Signal
<1>2. \A r \in Requests : Listens(r)' => Listens(r) /\ calls'[r] = calls[r] /\ UNCHANGED gdmVars
  BY <1>1 DEF Listens, InLaunch, Running, Bare
<1>3. \A r \in Requests : calls'[r].pc # "unavailable" => calls'[r] = calls[r]
  BY <1>1 DEF Bare
<1>4. \A r \in Requests : calls'[r].inbox # {} => calls'[r] = calls[r]
  BY <1>1 DEF Bare
<1>5. GdmTypeOK'
  BY <1>1, <1>2, <1>3 DEF gdmVars, Idle, InLaunch, Listens
<1>6. CallsOK'
  BY <1>2, <1>3, <1>4 DEF CallsOK, gdmVars, Listens
<1>7. LaunchOK'
  <2> SUFFICES ASSUME ~mixed'
               PROVE  (OneByOne /\ RightFits /\ \A r \in Launches : Verifies(r) /\ StartedOnce(r))'
    BY DEF LaunchOK
  <2>1. ~mixed /\ UNCHANGED started
    BY DEF gdmVars
  <2>2. OneByOne'
    BY <1>2, <2>1 DEF LaunchOK, OneByOne
  <2>3. RightFits'
    BY <2>1 DEF LaunchOK, RightFits, Idle, gdmVars
  <2>4. ASSUME NEW r \in Launches PROVE Verifies(r)'
    BY <1>2, <2>1 DEF LaunchOK, Verifies, gdmVars
  <2>5. ASSUME NEW r \in Launches PROVE StartedOnce(r)'
    BY <1>3, <2>1 DEF LaunchOK, StartedOnce
  <2> QED BY <2>2, <2>3, <2>4, <2>5
<1> QED BY <1>5, <1>6, <1>7

------------------------------------------------------------------------------
\* The steps of a launch.
LEMMA EnterKeepsGdmInv ==
  ASSUME GdmInv, NEW r \in Launches, calls[r].pc = "sent", Enter(r)
  PROVE  GdmInv'
<1> USE LaunchesAssumption DEF GdmInv, GdmTypeOK
<1>1. /\ r \in Requests
      /\ calls' \in [Requests -> Call]
      /\ calls'[r].pc = "begin" /\ calls'[r].inbox = calls[r].inbox
      /\ \A q \in Requests \ {r} : calls'[q] = calls[q]
  BY DEF Enter, Go, Call, Running, InLaunch
<1>2. calls[r].inbox = {}
  BY <1>1 DEF CallsOK, Listens, InLaunch
<1>3. GdmTypeOK'
  BY <1>1 DEF Enter
<1>4. CallsOK'
  BY <1>1, <1>2 DEF CallsOK, Listens, Enter
<1>5. LaunchOK'
  <2> SUFFICES ASSUME ~mixed'
               PROVE  (OneByOne /\ RightFits /\ \A q \in Launches : Verifies(q) /\ StartedOnce(q))'
    BY DEF LaunchOK
  <2>1. ~mixed /\ verifying = Idle /\ (\A s \in Launches \ {r} : ~Listens(s)) /\ UNCHANGED <<verifying, opened, started>>
    BY DEF Enter
  <2>2. OneByOne'
    BY <1>1, <2>1 DEF OneByOne, CallsOK, Listens, InLaunch
  <2>3. RightFits'
    BY <2>1 DEF RightFits, Idle
  <2>4. ASSUME NEW q \in Launches PROVE Verifies(q)'
    BY <1>1, <1>2, <2>1 DEF LaunchOK, Verifies, StartedOnce, Listens, Idle
  <2>5. ASSUME NEW q \in Launches PROVE StartedOnce(q)'
    BY <1>1, <2>1 DEF LaunchOK, StartedOnce
  <2> QED BY <2>2, <2>3, <2>4, <2>5
<1> QED BY <1>3, <1>4, <1>5

\* What a launch that goes on or returns does to the requests.
Moved(r) ==
  /\ \A q \in Requests \ {r} : calls'[q] = calls[q]
  /\ \/ calls'[r].inbox \subseteq calls[r].inbox /\ Listens(r)'
     \/ calls'[r].inbox = {} /\ calls'[r].pc \in {"ok", "error"}

LEMMA MovedRequests ==
  ASSUME GdmInv, NEW r \in Launches, Listens(r), UNCHANGED mixed,
         calls' \in [Requests -> Call], Moved(r),
         verifying' = verifying \/ verifying' \in [of : {r, verifying.of} \cap Launches, stage : {"query", "asked", "right", "wrong"}],
         RightFits \/ mixed => RightFits' \/ mixed,
         \/ started' = started
         \/ /\ opened \in Launches
            /\ calls[r].pc = "start"
            /\ started' = [started EXCEPT ![opened] = @ + 1]
            /\ ~Listens(r)',
         calls'[r].pc = "start" => calls[r].pc = "start" \/ \E s \in calls[r].inbox : s.kind = "SessionOpened",
         calls'[r].pc = "ok" => started' # started,
         UNCHANGED opened
  PROVE  GdmInv'
<1> USE LaunchesAssumption DEF GdmInv, GdmTypeOK
<1>1. r \in Requests
  OBVIOUS
<1>2. \A q \in Requests : Listens(q)' => Listens(q)
  BY <1>1 DEF Moved, Listens
<1>3. GdmTypeOK'
  BY <1>1, <1>2 DEF Moved, Listens, InLaunch, CallsOK
<1>4. CallsOK'
  BY <1>1, <1>2 DEF CallsOK, Moved, Listens, InLaunch
<1>5. LaunchOK'
  <2> SUFFICES ASSUME ~mixed
               PROVE  (OneByOne /\ RightFits /\ \A q \in Launches : Verifies(q) /\ StartedOnce(q))'
    BY DEF LaunchOK
  <2>0. OneByOne /\ RightFits /\ \A q \in Launches : Verifies(q) /\ StartedOnce(q)
    BY DEF LaunchOK
  <2>1. \A q \in Requests : Listens(q) => q = r
    BY <1>1, <2>0 DEF OneByOne
  <2>2. OneByOne'
    BY <1>2, <2>1 DEF OneByOne
  <2>3. RightFits'
    BY <2>0
  <2>4. ASSUME NEW q \in Launches, Listens(q)' PROVE Verifies(q)'
    <3>1. q = r /\ Listens(r)'
      BY <1>2, <2>1, <2>4
    <3>2. started' = started /\ calls'[r].inbox \subseteq calls[r].inbox
      BY <3>1 DEF Moved, Listens, InLaunch
    <3>3. verifying'.of \in {r, NoLaunch}
      BY <2>0, <3>1 DEF Verifies, Idle
    <3> QED BY <2>0, <3>1, <3>2, <3>3 DEF Verifies
  <2>5. ASSUME NEW q \in Launches PROVE StartedOnce(q)'
    <3>1. CASE started' = started
      BY <1>1, <2>0, <3>1 DEF StartedOnce, Moved, Listens, InLaunch
    <3>2. CASE started' # started
      <4>1. opened = r /\ <<r, r>> \in Fits /\ started[r] = 0
        BY <2>0, <3>2 DEF Verifies
      <4>2. started'[r] = 1 /\ \A p \in Launches \ {r} : started'[p] = started[p]
        BY <3>2, <4>1
      <4>3. calls'[r].pc \in {"ok", "error"}
        BY <3>2 DEF Moved
      <4> QED BY <2>0, <4>1, <4>2, <4>3 DEF StartedOnce, Moved
    <3> QED BY <3>1, <3>2
  <2> QED BY <2>2, <2>3, <2>4, <2>5 DEF Verifies
<1> QED BY <1>3, <1>4, <1>5

LEMMA GoMoves ==
  ASSUME GdmInv, NEW r \in Launches, Listens(r), NEW pc \in InLaunch, Go(r, pc)
  PROVE  /\ calls' \in [Requests -> Call]
         /\ Moved(r)
         /\ calls'[r].pc = pc
<1> USE LaunchesAssumption DEF GdmInv, GdmTypeOK
<1>1. r \in Requests /\ calls[r] \in Call
  OBVIOUS
<1>2. /\ calls'[r].pc = pc /\ calls'[r].inbox = calls[r].inbox
      /\ \A q \in Requests \ {r} : calls'[q] = calls[q]
  BY <1>1 DEF Go, Call
<1>3. [calls[r] EXCEPT !.pc = pc] \in Call
  BY <1>1 DEF Call, Running
<1>4. calls' \in [Requests -> Call]
  BY <1>1, <1>3 DEF Go
<1> QED BY <1>2, <1>4 DEF Moved, Listens

LEMMA ReturnMoves ==
  ASSUME GdmInv, NEW r \in Launches, NEW pc \in {"ok", "error"}, Return(r, pc)
  PROVE  /\ calls' \in [Requests -> Call]
         /\ Moved(r)
         /\ calls'[r].pc = pc
         /\ ~Listens(r)'
<1> USE LaunchesAssumption DEF GdmInv, GdmTypeOK
<1>1. r \in Requests
  OBVIOUS
<1>2. Bare(pc) \in Call /\ Bare(pc).pc = pc /\ Bare(pc).inbox = {}
  BY DEF Bare, Call, Over
<1>3. /\ calls'[r] = Bare(pc)
      /\ \A q \in Requests \ {r} : calls'[q] = calls[q]
      /\ calls' \in [Requests -> Call]
  BY <1>1, <1>2 DEF Return
<1> QED BY <1>2, <1>3 DEF Moved, Listens, InLaunch

LEMMA BeginKeepsGdmInv ==
  ASSUME GdmInv, NEW r \in Launches, BeginVerificationForUser(r)
  PROVE  GdmInv'
<1> USE LaunchesAssumption DEF GdmInv, GdmTypeOK
<1>1. r \in Requests /\ Listens(r) /\ calls[r].pc = "begin" /\ UNCHANGED <<opened, started, mixed>>
  BY DEF BeginVerificationForUser, Listens, InLaunch
<1>2. calls' \in [Requests -> Call] /\ Moved(r) /\ calls'[r].pc \notin {"start", "ok"}
  BY <1>1, GoMoves, ReturnMoves DEF BeginVerificationForUser, InLaunch
<1>3. \/ UNCHANGED verifying
      \/ verifying' = [of |-> r, stage |-> "query"]
  BY DEF BeginVerificationForUser
<1>4. RightFits => RightFits'
  BY <1>3 DEF RightFits
<1> QED BY <1>1, <1>2, <1>3, <1>4, MovedRequests

LEMMA ReceiveKeepsGdmInv ==
  ASSUME GdmInv, NEW r \in Launches, Receive(r)
  PROVE  GdmInv'
<1> USE LaunchesAssumption DEF GdmInv, GdmTypeOK
<1>1. r \in Requests /\ Listens(r) /\ calls[r].pc = "loop" /\ UNCHANGED gdmVars
  BY DEF Receive, Listens, InLaunch
<1>2. PICK s \in calls[r].inbox :
        \/ s.kind = "Problem" /\ Return(r, "error")
        \/ /\ s.kind # "Problem"
           /\ calls' = [calls EXCEPT ![r].inbox = @ \ {s},
                                     ![r].pc = IF s.kind = "SecretInfoQuery" THEN "answer" ELSE "start"]
  BY DEF Receive
<1>3. calls[r] \in Call /\ s \in Signal
  BY <1>1 DEF Call
<1>4. CASE s.kind = "Problem"
  <2>1. calls' \in [Requests -> Call] /\ Moved(r) /\ calls'[r].pc \notin {"start", "ok"}
    BY <1>2, <1>4, ReturnMoves
  <2> QED BY <1>1, <2>1, MovedRequests DEF gdmVars, RightFits
<1>5. CASE s.kind # "Problem"
  <2>1. /\ calls'[r].inbox = calls[r].inbox \ {s}
        /\ calls'[r].pc = IF s.kind = "SecretInfoQuery" THEN "answer" ELSE "start"
        /\ calls'[r].left = calls[r].left
        /\ calls' \in [Requests -> Call]
        /\ \A q \in Requests \ {r} : calls'[q] = calls[q]
    BY <1>1, <1>2, <1>3, <1>5 DEF Call, Running, InLaunch
  <2>2. Moved(r) /\ calls'[r].pc # "ok"
    BY <2>1 DEF Moved, Listens, InLaunch
  <2>3. calls'[r].pc = "start" => s.kind = "SessionOpened"
    BY <1>3, <1>5, <2>1 DEF Signal
  <2> QED BY <1>1, <2>1, <2>2, <2>3, MovedRequests DEF gdmVars, RightFits
<1> QED BY <1>4, <1>5

LEMMA DeadlineKeepsGdmInv ==
  ASSUME GdmInv, NEW r \in Launches, DeadlineExceeded(r)
  PROVE  GdmInv'
<1> USE LaunchesAssumption DEF GdmInv, GdmTypeOK
<1>1. r \in Requests /\ Listens(r) /\ UNCHANGED gdmVars
  BY DEF DeadlineExceeded, Listens, InLaunch
<1>2. calls' \in [Requests -> Call] /\ Moved(r) /\ calls'[r].pc \notin {"start", "ok"}
  BY ReturnMoves DEF DeadlineExceeded
<1> QED BY <1>1, <1>2, MovedRequests DEF gdmVars, RightFits

\* GDM checks a password for the user it belongs to, as long as launches have
\* not been mixed.
LEMMA AnswerKeepsGdmInv ==
  ASSUME GdmInv, NEW r \in Launches, AnswerQuery(r)
  PROVE  GdmInv'
<1> USE LaunchesAssumption DEF GdmInv, GdmTypeOK
<1>1. r \in Requests /\ Listens(r) /\ UNCHANGED <<opened, started, mixed>>
  BY DEF AnswerQuery, Listens, InLaunch
<1>2. calls' \in [Requests -> Call] /\ Moved(r) /\ calls'[r].pc \notin {"start", "ok"}
  BY <1>1, GoMoves, ReturnMoves DEF AnswerQuery, InLaunch
<1>3. verifying' = verifying \/ verifying' = Checked(r)
  BY DEF AnswerQuery
<1>4. \/ verifying' = verifying
      \/ /\ verifying.stage = "asked"
         /\ verifying' = [of |-> verifying.of, stage |-> IF <<r, verifying.of>> \in Fits THEN "right" ELSE "wrong"]
         /\ verifying.of \in Launches
  BY <1>3 DEF Checked, Idle
<1>5. ~mixed => verifying.of \in {r, NoLaunch}
  BY <1>1 DEF LaunchOK, Verifies
<1>6. RightFits \/ mixed => RightFits' \/ mixed
  BY <1>4, <1>5 DEF RightFits
<1> QED BY <1>1, <1>2, <1>4, <1>6, MovedRequests

LEMMA StartKeepsGdmInv ==
  ASSUME GdmInv, NEW r \in Launches, StartSessionWhenReady(r)
  PROVE  GdmInv'
<1> USE LaunchesAssumption DEF GdmInv, GdmTypeOK
<1>1. r \in Requests /\ Listens(r) /\ calls[r].pc = "start" /\ opened \in Launches /\ UNCHANGED <<verifying, opened, mixed>>
  BY DEF StartSessionWhenReady, Listens, InLaunch
<1>2. calls' \in [Requests -> Call] /\ Moved(r) /\ calls'[r].pc \in {"ok", "error"} /\ ~Listens(r)'
  BY ReturnMoves DEF StartSessionWhenReady
<1>3. \/ started' = started /\ calls'[r].pc = "error"
      \/ started' = [started EXCEPT ![opened] = @ + 1] /\ started' # started
  BY <1>1, ReturnMoves DEF StartSessionWhenReady
<1> QED BY <1>1, <1>2, <1>3, MovedRequests DEF RightFits

LEMMA LaunchKeepsGdmInv ==
  ASSUME GdmInv, NEW r \in Launches, LaunchDesktopSession(r)
  PROVE  GdmInv'
  BY BeginKeepsGdmInv, ReceiveKeepsGdmInv, DeadlineKeepsGdmInv, AnswerKeepsGdmInv, StartKeepsGdmInv
  DEF LaunchDesktopSession

------------------------------------------------------------------------------
\* GDM's side: it reports on the launch it is busy with.
Reported(kind) ==
  /\ \A q \in Requests :
       /\ calls'[q].pc = calls[q].pc
       /\ calls'[q].left = calls[q].left
       /\ calls'[q].inbox = IF Listens(q) THEN calls[q].inbox \cup {[kind |-> kind, of |-> verifying.of]}
                            ELSE calls[q].inbox
  /\ calls' \in [Requests -> Call]

LEMMA EmitReports ==
  ASSUME GdmInv, NEW kind \in {"SecretInfoQuery", "Problem", "SessionOpened"}, Emit(kind),
         verifying.of \in Launches
  PROVE  Reported(kind)
<1> USE DEF GdmInv, GdmTypeOK
<1>1. [kind |-> kind, of |-> verifying.of] \in Signal
  BY DEF Signal
<1>2. \A q \in Requests : calls'[q] = IF Listens(q) THEN [calls[q] EXCEPT !.inbox = @ \cup {[kind |-> kind, of |-> verifying.of]}] ELSE calls[q]
  BY DEF Emit
<1>3. \A q \in Requests : calls[q] \in Call
  OBVIOUS
<1>4. ASSUME NEW q \in Requests
      PROVE  /\ calls'[q] \in Call
             /\ calls'[q].pc = calls[q].pc
             /\ calls'[q].left = calls[q].left
             /\ calls'[q].inbox = IF Listens(q) THEN calls[q].inbox \cup {[kind |-> kind, of |-> verifying.of]}
                                  ELSE calls[q].inbox
  <2>1. calls[q] \in Call
    BY <1>3
  <2>2. CASE Listens(q)
    <3>1. calls'[q] = [calls[q] EXCEPT !.inbox = calls[q].inbox \cup {[kind |-> kind, of |-> verifying.of]}]
      BY <1>2, <2>2
    <3>2. calls[q].inbox \cup {[kind |-> kind, of |-> verifying.of]} \in SUBSET Signal
      BY <1>1, <2>1 DEF Call
    <3> QED BY <2>1, <2>2, <3>1, <3>2 DEF Call
  <2>3. CASE ~Listens(q)
    BY <1>2, <2>1, <2>3
  <2> QED BY <2>2, <2>3
<1>5. calls' \in [Requests -> Call]
  BY <1>4 DEF Emit
<1> QED BY <1>4, <1>5 DEF Reported

LEMMA AskSecretKeepsGdmInv ==
  ASSUME GdmInv, AskSecret
  PROVE  GdmInv'
<1> USE LaunchesAssumption DEF GdmInv, GdmTypeOK
<1>1. /\ verifying.of \in Launches
      /\ verifying' = [of |-> verifying.of, stage |-> "asked"]
      /\ UNCHANGED <<opened, started, mixed>>
  BY DEF AskSecret, Idle
<1>2. Reported("SecretInfoQuery")
  BY <1>1, EmitReports DEF AskSecret
<1>3. \A q \in Requests : (\E s \in calls'[q].inbox : s.kind = "SessionOpened") => \E s \in calls[q].inbox : s.kind = "SessionOpened"
  <2> SUFFICES ASSUME NEW q \in Requests, NEW s \in calls'[q].inbox, s.kind = "SessionOpened"
               PROVE  s \in calls[q].inbox
    OBVIOUS
  <2>1. s # [kind |-> "SecretInfoQuery", of |-> verifying.of]
    OBVIOUS
  <2> HIDE DEF GdmInv, GdmTypeOK
  <2> QED BY <1>2, <2>1 DEF Reported
<1>4. \A q \in Requests : Listens(q)' <=> Listens(q)
  BY <1>2 DEF Reported, Listens
<1>5. GdmTypeOK'
  BY <1>1, <1>2 DEF Reported
<1>6. CallsOK'
  BY <1>1, <1>2, <1>3, <1>4 DEF CallsOK, Reported
<1>7. LaunchOK'
  <2> SUFFICES ASSUME ~mixed
               PROVE  (OneByOne /\ RightFits /\ \A q \in Launches : Verifies(q) /\ StartedOnce(q))'
    BY <1>1 DEF LaunchOK
  <2>1. OneByOne /\ RightFits /\ \A q \in Launches : Verifies(q) /\ StartedOnce(q)
    BY DEF LaunchOK
  <2>2. OneByOne' /\ RightFits'
    BY <1>1, <1>4, <2>1 DEF OneByOne, RightFits
  <2>3. ASSUME NEW q \in Launches PROVE Verifies(q)'
    <3>1. calls'[q].pc = calls[q].pc
      BY <1>2 DEF Reported
    <3> QED BY <1>1, <1>3, <1>4, <2>1, <3>1 DEF Verifies
  <2>4. ASSUME NEW q \in Launches PROVE StartedOnce(q)'
    BY <1>1, <1>2, <2>1 DEF StartedOnce, Reported
  <2> QED BY <2>2, <2>3, <2>4
<1> QED BY <1>5, <1>6, <1>7

LEMMA OpenSessionKeepsGdmInv ==
  ASSUME GdmInv, OpenSession
  PROVE  GdmInv'
<1> USE LaunchesAssumption DEF GdmInv, GdmTypeOK
<1>1. /\ verifying.of \in Launches
      /\ verifying.stage = "right"
      /\ verifying' = Idle
      /\ opened' = verifying.of
      /\ UNCHANGED <<started, mixed>>
  BY DEF OpenSession, Idle
<1>2. Reported("SessionOpened")
  BY <1>1, EmitReports DEF OpenSession
<1>4. \A q \in Requests : Listens(q)' <=> Listens(q)
  BY <1>2 DEF Reported, Listens
<1>5. GdmTypeOK'
  BY <1>1, <1>2 DEF Reported
<1>6. CallsOK'
  BY <1>1, <1>2, <1>4 DEF CallsOK, Reported
<1>7. LaunchOK'
  <2> SUFFICES ASSUME ~mixed
               PROVE  (OneByOne /\ RightFits /\ \A q \in Launches : Verifies(q) /\ StartedOnce(q))'
    BY <1>1 DEF LaunchOK
  <2>1. OneByOne /\ RightFits /\ \A q \in Launches : Verifies(q) /\ StartedOnce(q)
    BY DEF LaunchOK
  <2>2. OneByOne' /\ RightFits'
    BY <1>1, <1>4, <2>1 DEF OneByOne, RightFits, Idle
  <2>3. ASSUME NEW q \in Launches, Listens(q) PROVE Verifies(q)'
    <3>1. verifying.of = q /\ <<q, q>> \in Fits
      BY <1>1, <2>1, <2>3 DEF Verifies, RightFits
    <3> QED BY <1>1, <2>1, <2>3, <3>1 DEF Verifies, Idle
  <2>4. ASSUME NEW q \in Launches PROVE StartedOnce(q)'
    BY <1>1, <1>2, <2>1 DEF StartedOnce, Reported
  <2> QED BY <1>4, <2>2, <2>3, <2>4 DEF Verifies
<1> QED BY <1>5, <1>6, <1>7

LEMMA ReportProblemKeepsGdmInv ==
  ASSUME GdmInv, ReportProblem
  PROVE  GdmInv'
<1> USE LaunchesAssumption DEF GdmInv, GdmTypeOK
<1>1. verifying.of \in Launches /\ verifying' = Idle /\ UNCHANGED <<opened, started, mixed>>
  BY DEF ReportProblem, Idle
<1>2. Reported("Problem")
  BY <1>1, EmitReports DEF ReportProblem
<1>3. \A q \in Requests : (\E s \in calls'[q].inbox : s.kind = "SessionOpened") => \E s \in calls[q].inbox : s.kind = "SessionOpened"
  <2> SUFFICES ASSUME NEW q \in Requests, NEW s \in calls'[q].inbox, s.kind = "SessionOpened"
               PROVE  s \in calls[q].inbox
    OBVIOUS
  <2>1. s # [kind |-> "Problem", of |-> verifying.of]
    OBVIOUS
  <2> HIDE DEF GdmInv, GdmTypeOK
  <2> QED BY <1>2, <2>1 DEF Reported
<1>4. \A q \in Requests : Listens(q)' <=> Listens(q)
  BY <1>2 DEF Reported, Listens
<1>5. GdmTypeOK'
  BY <1>1, <1>2 DEF Reported
<1>6. CallsOK'
  BY <1>1, <1>2, <1>3, <1>4 DEF CallsOK, Reported
<1>7. LaunchOK'
  <2> SUFFICES ASSUME ~mixed
               PROVE  (OneByOne /\ RightFits /\ \A q \in Launches : Verifies(q) /\ StartedOnce(q))'
    BY <1>1 DEF LaunchOK
  <2>1. OneByOne /\ RightFits /\ \A q \in Launches : Verifies(q) /\ StartedOnce(q)
    BY DEF LaunchOK
  <2>2. OneByOne' /\ RightFits'
    BY <1>1, <1>4, <2>1 DEF OneByOne, RightFits, Idle
  <2>3. ASSUME NEW q \in Launches PROVE Verifies(q)'
    <3>1. calls'[q].pc = calls[q].pc
      BY <1>2 DEF Reported
    <3> QED BY <1>1, <1>3, <1>4, <2>1, <3>1 DEF Verifies, Idle
  <2>4. ASSUME NEW q \in Launches PROVE StartedOnce(q)'
    BY <1>1, <1>2, <2>1 DEF StartedOnce, Reported
  <2> QED BY <2>2, <2>3, <2>4
<1> QED BY <1>5, <1>6, <1>7

LEMMA GdmKeepsGdmInv ==
  ASSUME GdmInv, Gdm
  PROVE  GdmInv'
  BY AskSecretKeepsGdmInv, OpenSessionKeepsGdmInv, ReportProblemKeepsGdmInv DEF Gdm

------------------------------------------------------------------------------
(* The service in any host: GdmInv is an invariant of GdmSpec *)

\* A request that is not in the hands of a launch, or whose client leaves.
LEMMA BystanderKeepsGdmInv ==
  ASSUME GdmInv, UNCHANGED gdmVars, NEW r \in Requests,
         calls' \in [Requests -> Call],
         \A q \in Requests \ {r} : calls'[q] = calls[q],
         calls'[r].inbox = calls[r].inbox,
         \/ calls'[r].pc = calls[r].pc
         \/ /\ ~Listens(r) /\ ~Listens(r)'
            /\ r \in Launches => calls[r].pc = "idle" \/ calls'[r].pc = "unimplemented"
            /\ r \in Launches => calls'[r].pc \notin {"running", "ok", "idle"}
  PROVE  GdmInv'
<1> USE LaunchesAssumption DEF GdmInv, GdmTypeOK, gdmVars
<1>1. \A q \in Requests : Listens(q)' <=> Listens(q)
  BY DEF Listens
<1>2. \A q \in Requests : calls'[q].inbox = calls[q].inbox
  OBVIOUS
<1>3. GdmTypeOK'
  BY DEF Listens, InLaunch
<1>4. CallsOK'
  BY <1>1, <1>2 DEF CallsOK
<1>5. LaunchOK'
  <2> SUFFICES ASSUME ~mixed
               PROVE  (OneByOne /\ RightFits /\ \A q \in Launches : Verifies(q) /\ StartedOnce(q))'
    BY DEF LaunchOK
  <2>1. OneByOne /\ RightFits /\ \A q \in Launches : Verifies(q) /\ StartedOnce(q)
    BY DEF LaunchOK
  <2>2. OneByOne' /\ RightFits'
    BY <1>1, <2>1 DEF OneByOne, RightFits
  <2>3. ASSUME NEW q \in Launches PROVE Verifies(q)'
    BY <1>1, <1>2, <2>1 DEF Verifies, Listens, InLaunch
  <2>4. ASSUME NEW q \in Launches PROVE StartedOnce(q)'
    BY <2>1 DEF StartedOnce
  <2> QED BY <2>2, <2>3, <2>4
<1> QED BY <1>3, <1>4, <1>5

LEMMA GoTypes ==
  ASSUME GdmInv, NEW r \in Requests, NEW pc \in {"idle", "sent"} \cup Running \cup Over, Go(r, pc)
  PROVE  /\ calls' \in [Requests -> Call]
         /\ \A q \in Requests \ {r} : calls'[q] = calls[q]
         /\ calls'[r].inbox = calls[r].inbox
         /\ calls'[r].pc = pc
<1> USE DEF GdmInv, GdmTypeOK
<1>1. [calls[r] EXCEPT !.pc = pc] \in Call
  BY DEF Call
<1> QED BY <1>1 DEF Go, Call

LEMMA PassKeepsGdmInv ==
  ASSUME GdmInv, NEW r \in Requests, Pass(r)
  PROVE  /\ GdmInv'
         /\ \A q \in Requests \ {r} : calls'[q] = calls[q]
<1>1. UNCHANGED gdmVars /\ calls[r].pc \in {"idle", "sent", "running"} /\ (calls[r].pc = "running" => r \notin Launches)
  BY DEF Pass, GdmInv, CallsOK
<1>2. PICK pc \in {"sent", "unavailable", "unimplemented", "running", "ok", "error"} :
         /\ Go(r, pc)
         /\ r \in Launches => \/ calls[r].pc = "idle" /\ pc \in {"sent", "unavailable"}
                              \/ pc = "unimplemented"
  BY <1>1 DEF Pass
<1>3. /\ calls' \in [Requests -> Call]
      /\ \A q \in Requests \ {r} : calls'[q] = calls[q]
      /\ calls'[r].inbox = calls[r].inbox
      /\ calls'[r].pc = pc
  BY <1>2, GoTypes DEF Over, Running
<1>4. ~Listens(r) /\ ~Listens(r)'
  BY <1>1, <1>2, <1>3 DEF Listens, InLaunch
<1> QED BY <1>1, <1>2, <1>3, <1>4, BystanderKeepsGdmInv

LEMMA GiveUpKeepsGdmInv ==
  ASSUME GdmInv, NEW r \in Launches, GiveUp(r)
  PROVE  /\ GdmInv'
         /\ \A q \in Requests : calls'[q].pc = calls[q].pc
<1> USE LaunchesAssumption DEF GdmInv, GdmTypeOK
<1>1. r \in Requests /\ Listens(r) /\ UNCHANGED gdmVars
  BY DEF GiveUp
<1>2. [calls[r] EXCEPT !.left = TRUE] \in Call
  BY <1>1 DEF Call
<1>3. /\ calls' \in [Requests -> Call]
      /\ \A q \in Requests \ {r} : calls'[q] = calls[q]
      /\ calls'[r].inbox = calls[r].inbox
      /\ calls'[r].pc = calls[r].pc
  BY <1>1, <1>2 DEF GiveUp, Call
<1>4. GdmInv'
  BY <1>1, <1>3, BystanderKeepsGdmInv
<1> QED BY <1>3, <1>4

\* Without a launch under way, GDM's side may be forgotten.
LEMMA DisconnectKeepsGdmInv ==
  ASSUME GdmInv, Disconnect
  PROVE  GdmInv'
<1>1. CASE Drop({"sent"} \cup Running)
  BY <1>1, DropKeepsGdmInv DEF Disconnect
<1>2. CASE (\A r \in Launches : ~Listens(r)) /\ UNCHANGED calls
  <2> USE LaunchesAssumption DEF GdmInv, GdmTypeOK
  <2>1. UNCHANGED <<calls, started, mixed>> /\ verifying' = Idle /\ opened' = NoLaunch
    BY <1>2 DEF Disconnect
  <2>2. \A r \in Requests : ~Listens(r)
    BY <1>2 DEF CallsOK
  <2>3. GdmTypeOK'
    BY <2>1, <2>2 DEF Listens, InLaunch
  <2>4. CallsOK'
    BY <2>1, <2>2 DEF CallsOK, Listens
  <2>5. LaunchOK'
    BY <2>1, <2>2 DEF LaunchOK, OneByOne, RightFits, Verifies, StartedOnce, Listens, Idle
  <2> QED BY <2>3, <2>4, <2>5
<1> QED BY <1>1, <1>2 DEF Disconnect

LEMMA GdmNextKeepsGdmInv ==
  ASSUME GdmInv, [GdmNext]_<<calls, gdmVars>>
  PROVE  GdmInv'
<1>1. CASE \E r \in Requests : Pass(r)
  BY <1>1, PassKeepsGdmInv
<1>2. CASE \E r \in Launches : calls[r].pc = "sent" /\ Enter(r)
  BY <1>2, EnterKeepsGdmInv
<1>3. CASE \E r \in Launches : LaunchDesktopSession(r) \/ GiveUp(r)
  BY <1>3, LaunchKeepsGdmInv, GiveUpKeepsGdmInv
<1>4. CASE Gdm \/ CloseListener \/ Disconnect
  BY <1>4, GdmKeepsGdmInv, DropKeepsGdmInv, DisconnectKeepsGdmInv DEF CloseListener
<1>5. CASE UNCHANGED <<calls, gdmVars>>
  BY <1>5, QuietKeepsGdmInv
<1> QED BY <1>1, <1>2, <1>3, <1>4, <1>5 DEF GdmNext

LEMMA GdmInitial ==
  ASSUME GdmInit
  PROVE  /\ GdmInv
         /\ \A r \in Requests : ~Listens(r) /\ calls[r].pc = "idle"
<1>1. NewCall \in Call /\ NewCall.pc = "idle" /\ NewCall.inbox = {}
  BY DEF NewCall, Bare, Call
<1>2. calls \in [Requests -> Call] /\ \A r \in Requests : calls[r] = NewCall
  BY <1>1 DEF GdmInit
<1>3. \A r \in Requests : ~Listens(r) /\ calls[r].pc = "idle"
  BY <1>1, <1>2 DEF Listens, InLaunch
<1>4. GdmTypeOK
  BY <1>2, <1>3, LaunchesAssumption DEF GdmTypeOK, GdmInit
<1>5. CallsOK
  BY <1>1, <1>2, <1>3 DEF CallsOK
<1>6. LaunchOK
  BY <1>3, LaunchesAssumption DEF LaunchOK, OneByOne, RightFits, Verifies, StartedOnce, GdmInit, Idle
<1> QED BY <1>3, <1>4, <1>5, <1>6 DEF GdmInv

\* In any process that hosts the gdm service and does not close its connection to GDM
\* under a launch, for any number of clients and launches: while GDM has dealt with
\* one launch after the other, a reported launch was verified with its own password
\* and started one session (LaunchDesktopSession and its loop over GDM's signals).
THEOREM ServiceVerifiesLaunches == GdmSpec => []LaunchedIsVerified
<1>1. GdmInit => GdmInv
  BY GdmInitial
<1>2. GdmInv /\ [GdmNext]_<<calls, gdmVars>> => GdmInv'
  BY GdmNextKeepsGdmInv
<1>3. GdmInv => LaunchedIsVerified
  BY DEF GdmInv, LaunchOK, StartedOnce, LaunchedIsVerified
<1> QED BY <1>1, <1>2, <1>3, PTL DEF GdmSpec

------------------------------------------------------------------------------
\* The rest of TypeOK; the channel of the signal handler has room for one.
Pendings == {<<>>, <<"SIGTERM">>, <<"SIGHUP">>}

FlagsOK ==
  /\ ready \in BOOLEAN
  /\ published \in BOOLEAN
  /\ client \in BOOLEAN
  /\ asked \in BOOLEAN

ProcessTypeOK ==
  /\ FlagsOK
  /\ main \in Steps \cup {"off", "exited", "killed"}
  /\ code \in 0..2
  /\ pending \in Pendings
  /\ handler \in {"receive", "hup", "quit", "drain", "done"}
  /\ server \in {"none", "new", "serving", "draining", "stopped"}
  /\ registered \subseteq Services
  /\ bus \in {"none", "open", "closed"}
  /\ socket \in {"none", "live", "stale"}
  /\ starts \in 0..MaxStarts
  /\ signals \in 0..MaxSignals

\* Where main, the server and the bus are while requests are handled.
ServingOK ==
  /\ Busy # {} => server \in {"serving", "draining"}
  /\ server \in {"serving", "draining"} => main = "serving"
  /\ main = "serving" => server \in {"serving", "draining", "stopped"}
  /\ main \in {"listen", "publish", "notify", "accept", "serving", "stop"} => bus = "open"
  /\ server = "draining" => handler = "drain"
  /\ published => main \in {"notify", "accept", "serving", "stop", "uninstall", "wait"}
  /\ server = "stopped" \/ handler = "drain" => published
  /\ ~Alive => pending = <<>> /\ handler = "done" /\ server = "none"

\* Only a SIGTERM leads to the end of the server, and so to the end of main
\* without an error; by then the socket file is gone.
AskedOK ==
  /\ pending = <<"SIGTERM">> => asked
  /\ handler \in {"quit", "drain"} => asked
  /\ handler = "drain" => server \in {"draining", "stopped"}
  /\ server = "stopped" => asked
  /\ main = "serving" /\ server \in {"draining", "stopped"} => socket = "none"
  /\ code = 0 /\ main \in {"stop", "uninstall", "wait", "exited"} => asked /\ socket = "none"

\* While nothing has gone wrong in the first start, a client that runs has a
\* socket that somebody listens to.
Unharmed == ~asked /\ code = 0 /\ main # "killed" /\ starts \leq 1

FoundOK ==
  /\ Unharmed => /\ \A r \in Requests : calls[r].pc # "unavailable"
                 /\ client => socket = "live"
                 /\ socket # "stale"
  /\ starts = 0 => main = "off" /\ code = 0 /\ ~asked /\ ~client /\ socket = "none"

ProcessInv == ProcessTypeOK /\ ServingOK /\ AskedOK /\ FoundOK

------------------------------------------------------------------------------
LEMMA QuietRequests ==
  ASSUME UNCHANGED calls
  PROVE  Busy' = Busy /\ \A r \in Requests : calls'[r].pc = "unavailable" => calls[r].pc = "unavailable"
  BY DEF Busy

LEMMA DropRequests ==
  ASSUME NEW pcs, pcs \in {{"sent"}, {"sent"} \cup Running}, Drop(pcs)
  PROVE  /\ Busy' \subseteq Busy
         /\ pcs = {"sent"} \cup Running => Busy' = {}
<1>1. \A r \in Requests : calls'[r] = IF calls[r].pc \in pcs THEN Bare("unavailable") ELSE calls[r]
  BY DEF Drop
<1> QED BY <1>1 DEF Busy, Bare, Running, InLaunch

\* Steps of a request, of GDM, and those of nobody.
LEMMA CallStep ==
  ASSUME ProcessInv, UNCHANGED <<processVars, sessionVars>>,
         Busy' # {} => Busy # {} \/ server = "serving",
         \A r \in Requests : calls'[r].pc = "unavailable" => calls[r].pc = "unavailable" \/ ~Unharmed
  PROVE  ProcessInv'
<1>1. FlagsOK'
  BY DEF ProcessInv, ProcessTypeOK, FlagsOK, processVars, sessionVars
<1>2. ProcessTypeOK' /\ ServingOK' /\ AskedOK'
  BY <1>1 DEF ProcessInv, ProcessTypeOK, ServingOK, AskedOK, Alive, processVars, sessionVars
<1>3. FoundOK'
  BY DEF ProcessInv, FoundOK, Unharmed, processVars, sessionVars
<1> QED BY <1>2, <1>3 DEF ProcessInv

\* The process is gone: whoever still asks it for something has lost it.
LEMMA EndKeepsProcessInv ==
  ASSUME ProcessInv, Alive, NEW exit \in {"exited", "killed"}, End(exit),
         code' \in 0..2, signals' \in 0..MaxSignals, UNCHANGED <<client, starts, asked>>,
         exit = "exited" /\ code' = 0 => asked /\ socket = "none"
  PROVE  ProcessInv'
<1>1. Busy' = {}
  BY DropRequests DEF End
<1>2. starts # 0
  BY DEF ProcessInv, FoundOK, Alive, Steps
<1>3. ProcessTypeOK'
  <2>1. FlagsOK'
    BY DEF ProcessInv, ProcessTypeOK, FlagsOK, End
  <2> QED BY <2>1 DEF ProcessInv, ProcessTypeOK, Pendings, End
<1>4. ServingOK' /\ AskedOK'
  BY <1>1 DEF ServingOK, AskedOK, Alive, Steps, End
<1>5. FoundOK'
  BY <1>2 DEF FoundOK, Unharmed, End
<1> QED BY <1>3, <1>4, <1>5 DEF ProcessInv

\* Steps of main that leave requests, the session and the handler alone.
LEMMA MainStep ==
  ASSUME ProcessInv,
         UnlockKeyring \/ Execute \/ NewManager \/ Publish \/ Notify \/ Served \/ StopManager \/ Uninstall
  PROVE  ProcessInv'
<1> USE DEF Step, Fail, ProcessInv
<1>1. Busy' = Busy /\ (\A r \in Requests : calls'[r].pc = "unavailable" => calls[r].pc = "unavailable")
  BY QuietRequests DEF UnlockKeyring, Execute, NewManager, Publish, Notify, Served, StopManager, Uninstall
<1>2. UNCHANGED <<sessionVars, pending, handler, server, asked, signals>>
  BY DEF UnlockKeyring, Execute, NewManager, Publish, Notify, Served, StopManager, Uninstall
<1>3. main \in Steps /\ main' \in Steps
  BY DEF UnlockKeyring, Execute, NewManager, Publish, Notify, Served, StopManager, Uninstall, Steps
<1>4. ProcessTypeOK'
  <2>1. registered' \subseteq Services
    <3>1. \A made \in Working : made \subseteq Services
      BY DEF Working
    <3> QED BY <3>1 DEF ProcessTypeOK, UnlockKeyring, Execute, NewManager, Publish, Notify, Served, StopManager, Uninstall
  <2>2. code' \in 0..2 /\ bus' \in {"none", "open", "closed"}
    BY DEF ProcessTypeOK, UnlockKeyring, Execute, NewManager, Publish, Notify, Served, StopManager, Uninstall
  <2>3. FlagsOK'
    BY <1>2 DEF ProcessTypeOK, FlagsOK, UnlockKeyring, Execute, NewManager, Publish, Notify, Served, StopManager, Uninstall, sessionVars
  <2> QED BY <1>2, <1>3, <2>1, <2>2, <2>3 DEF ProcessTypeOK, sessionVars
<1>5. ServingOK'
  BY <1>1, <1>2, <1>3 DEF ServingOK, Alive, UnlockKeyring, Execute, NewManager, Publish, Notify, Served, StopManager, Uninstall
<1>6. AskedOK'
  BY <1>1, <1>2, <1>3 DEF AskedOK, ServingOK, UnlockKeyring, Execute, NewManager, Publish, Notify, Served, StopManager, Uninstall, sessionVars
<1>7. FoundOK'
  BY <1>1, <1>2, <1>3 DEF FoundOK, Unharmed, Steps, UnlockKeyring, Execute, NewManager, Publish, Notify, Served, StopManager, Uninstall, sessionVars
<1> QED BY <1>4, <1>5, <1>6, <1>7

LEMMA PanicStep ==
  ASSUME ProcessInv, NewManagerPanics
  PROVE  ProcessInv'
  BY EndKeepsProcessInv DEF NewManagerPanics, Alive, Steps, ProcessInv, ProcessTypeOK

LEMMA ExitStep ==
  ASSUME ProcessInv, Exit
  PROVE  ProcessInv'
  BY EndKeepsProcessInv DEF Exit, Alive, Steps, ProcessInv, ProcessTypeOK, AskedOK

LEMMA KillStep ==
  ASSUME ProcessInv, Kill
  PROVE  ProcessInv'
  BY EndKeepsProcessInv DEF Kill, ProcessInv, ProcessTypeOK

\* A launch under way is a busy request, of a process that runs.
LEMMA GdmLeavesStep ==
  ASSUME ProcessInv, GdmLeaves
  PROVE  ProcessInv'
<1>1. Busy # {}
  BY LaunchesAssumption DEF GdmLeaves, Busy, Listens, Running
<1>2. Alive
  BY <1>1 DEF ProcessInv, ServingOK, Alive, Steps
<1> QED BY <1>2, EndKeepsProcessInv DEF GdmLeaves, ProcessInv, ProcessTypeOK

\* A client that is started finds the file of a socket that is live.
LEMMA ScriptStep ==
  ASSUME ProcessInv, Start \/ RunClient
  PROVE  ProcessInv'
<1>1. Busy' = Busy /\ (\A r \in Requests : calls'[r].pc = "unavailable" => calls[r].pc = "unavailable")
  BY QuietRequests DEF Start, RunClient
<1>2. CASE Start
  <2>0. FlagsOK'
    BY <1>2 DEF Start, ProcessInv, ProcessTypeOK, FlagsOK
  <2>1. ProcessTypeOK'
    BY <1>2, <2>0, DaemonAssumption DEF Start, ProcessInv, ProcessTypeOK, Steps
  <2>2. ServingOK' /\ AskedOK'
    BY <1>1, <1>2 DEF Start, ProcessInv, ServingOK, AskedOK, Alive, Steps
  <2>3. FoundOK'
    <3>1. starts \in Nat /\ starts' = starts + 1
      BY <1>2, DaemonAssumption DEF Start, ProcessInv, ProcessTypeOK
    <3>2. Unharmed' => starts = 0
      BY <3>1 DEF Unharmed
    <3> QED BY <1>1, <1>2, <3>1, <3>2 DEF Start, ProcessInv, FoundOK, Unharmed
  <2> QED BY <2>1, <2>2, <2>3 DEF ProcessInv
<1>3. CASE RunClient
  <2>1. FlagsOK'
    BY <1>3 DEF RunClient, ProcessInv, ProcessTypeOK, FlagsOK, processVars
  <2>2. ProcessTypeOK' /\ ServingOK' /\ AskedOK'
    BY <1>1, <1>3, <2>1 DEF RunClient, ProcessInv, ProcessTypeOK, ServingOK, AskedOK, Alive, processVars
  <2>3. FoundOK'
    BY <1>1, <1>3, DaemonAssumption DEF RunClient, ProcessInv, ProcessTypeOK, FoundOK, Unharmed, processVars
  <2> QED BY <2>2, <2>3 DEF ProcessInv
<1> QED BY <1>2, <1>3

LEMMA NewDaemonStep ==
  ASSUME ProcessInv, NewDaemon
  PROVE  ProcessInv'
<1> USE DEF Step, Fail
<1>1. Busy' = Busy /\ (\A r \in Requests : calls'[r].pc = "unavailable" => calls[r].pc = "unavailable")
  BY QuietRequests DEF NewDaemon
<1>2. /\ main = "listen" /\ main' \in {"publish", "stop"}
      /\ server' \in {server, "new"} /\ code' \in {code, 1}
      /\ main' = "stop" => code' = 1
      /\ socket' \in {socket, "none", "live"}
      /\ UNCHANGED <<published, pending, handler, registered, bus, client, starts, asked, signals>>
      /\ ready' = ready \/ ready' = TRUE
  BY DEF NewDaemon
<1>3. ProcessTypeOK'
  <2>1. FlagsOK'
    BY <1>2 DEF ProcessInv, ProcessTypeOK, FlagsOK
  <2> QED BY <1>2, <2>1 DEF ProcessInv, ProcessTypeOK, Steps
<1>5. ServingOK'
  BY <1>1, <1>2 DEF ProcessInv, ServingOK, Alive, Steps
<1>6. AskedOK'
  <2>1. ~published
    BY <1>2 DEF ProcessInv, ServingOK
  <2>2. handler # "drain" /\ server # "stopped"
    BY <2>1 DEF ProcessInv, ServingOK
  <2> QED BY <1>2, <2>2 DEF ProcessInv, AskedOK
<1>4. FoundOK'
  BY <1>1 DEF NewDaemon, ProcessInv, FoundOK, Unharmed
<1> QED BY <1>3, <1>4, <1>5, <1>6 DEF ProcessInv

\* A server that was stopped before it serves was asked to.
LEMMA ServeStep ==
  ASSUME ProcessInv, Serve
  PROVE  ProcessInv'
<1> USE DEF Step, Fail
<1>1. Busy' \subseteq Busy
  BY QuietRequests, DropRequests DEF Serve
<1>2. calls' = calls \/ code' = 1
  BY DEF Serve
<1>3. ProcessTypeOK'
  <2>1. FlagsOK'
    BY DEF Serve, ProcessInv, ProcessTypeOK, FlagsOK
  <2> QED BY <2>1 DEF Serve, ProcessInv, ProcessTypeOK, Steps
<1>4. ServingOK' /\ AskedOK'
  BY <1>1 DEF Serve, ProcessInv, ServingOK, AskedOK, Alive, Steps
<1>5. FoundOK'
  BY <1>2 DEF Serve, ProcessInv, FoundOK, Unharmed, Steps
<1> QED BY <1>3, <1>4, <1>5 DEF ProcessInv

LEMMA PendingSignals ==
  /\ Head(<<"SIGTERM">>) = "SIGTERM" /\ Tail(<<"SIGTERM">>) = <<>>
  /\ Head(<<"SIGHUP">>) = "SIGHUP" /\ Tail(<<"SIGHUP">>) = <<>>
  /\ <<>> # <<"SIGTERM">> /\ <<>> # <<"SIGHUP">> /\ <<"SIGHUP">> # <<"SIGTERM">>
  OBVIOUS

LEMMA InterruptStep ==
  ASSUME ProcessInv, NEW s \in {"SIGTERM", "SIGHUP"}, Interrupt(s)
  PROVE  ProcessInv'
<1>0. signals' \in 0..MaxSignals
  BY DaemonAssumption DEF Interrupt, ProcessInv, ProcessTypeOK
<1>1. CASE End("killed")
  BY <1>0, <1>1, EndKeepsProcessInv DEF Interrupt, ProcessInv, ProcessTypeOK, End
<1>2. CASE ~End("killed")
  <2>1. Busy' = Busy /\ (\A r \in Requests : calls'[r].pc = "unavailable" => calls[r].pc = "unavailable")
    BY <1>2, QuietRequests DEF Interrupt
  <2>2. /\ pending' = IF pending = <<>> THEN <<s>> ELSE pending
        /\ asked' = (asked \/ (pending = <<>> /\ s = "SIGTERM"))
        /\ Alive
        /\ UNCHANGED <<sessionVars, main, code, ready, published, handler, server, registered, bus>>
    BY <1>2 DEF Interrupt
  <2>3. ProcessTypeOK'
    <3>1. FlagsOK'
      BY <2>2 DEF ProcessInv, ProcessTypeOK, FlagsOK, sessionVars
    <3> QED BY <1>0, <2>2, <3>1 DEF ProcessInv, ProcessTypeOK, Pendings, sessionVars
  <2>4. ServingOK' /\ AskedOK'
    BY <2>1, <2>2, PendingSignals DEF ProcessInv, ServingOK, AskedOK, Alive, sessionVars
  <2>5. FoundOK'
    BY <2>1, <2>2 DEF ProcessInv, FoundOK, Unharmed, Alive, Steps, sessionVars
  <2> QED BY <2>3, <2>4, <2>5 DEF ProcessInv
<1> QED BY <1>1, <1>2

\* The goroutine of the signal handler.
LEMMA HandlerStep ==
  ASSUME ProcessInv, Handler
  PROVE  ProcessInv'
<1> USE PendingSignals DEF Handle
<1>1. CASE TakeSignal \/ Hup
  <2>1. Busy' = Busy /\ (\A r \in Requests : calls'[r].pc = "unavailable" => calls[r].pc = "unavailable")
    BY <1>1, QuietRequests DEF TakeSignal, Hup
  <2>2. ProcessTypeOK'
    <3>1. FlagsOK'
      BY <1>1 DEF TakeSignal, Hup, ProcessInv, ProcessTypeOK, FlagsOK, sessionVars
    <3> QED BY <1>1, <3>1 DEF TakeSignal, Hup, ProcessInv, ProcessTypeOK, Pendings, sessionVars
  <2>3. ServingOK' /\ AskedOK'
    BY <1>1, <2>1 DEF TakeSignal, Hup, ProcessInv, ProcessTypeOK, Pendings, ServingOK, AskedOK, Alive, sessionVars
  <2>4. FoundOK'
    BY <1>1, <2>1 DEF TakeSignal, Hup, ProcessInv, FoundOK, Unharmed, sessionVars
  <2> QED BY <2>2, <2>3, <2>4 DEF ProcessInv
<1>2. CASE Quit
  <2>1. Busy' \subseteq Busy
    BY <1>2, QuietRequests, DropRequests DEF Quit
  <2>2. ~Unharmed' /\ starts' # 0
    BY <1>2 DEF Quit, ProcessInv, AskedOK, FoundOK, Unharmed
  <2>3. ProcessTypeOK'
    <3>1. FlagsOK'
      BY <1>2 DEF Quit, ProcessInv, ProcessTypeOK, FlagsOK
    <3> QED BY <1>2, <3>1 DEF Quit, ProcessInv, ProcessTypeOK
  <2>4. ServingOK'
    BY <1>2, <2>1 DEF Quit, ProcessInv, ServingOK, Alive
  <2>5. AskedOK'
    BY <1>2, <2>1 DEF Quit, ProcessInv, ServingOK, AskedOK
  <2> QED BY <2>2, <2>3, <2>4, <2>5 DEF ProcessInv, FoundOK
<1>3. CASE Drained
  <2>1. Busy' = Busy /\ (\A r \in Requests : calls'[r].pc = "unavailable" => calls[r].pc = "unavailable")
    BY <1>3, QuietRequests DEF Drained
  <2>2. FlagsOK'
    BY <1>3 DEF Drained, ProcessInv, ProcessTypeOK, FlagsOK, sessionVars
  <2>3. ProcessTypeOK' /\ ServingOK' /\ AskedOK'
    BY <1>3, <2>1, <2>2 DEF Drained, ProcessInv, ProcessTypeOK, ServingOK, AskedOK, Alive, sessionVars
  <2>4. FoundOK'
    BY <1>3, <2>1 DEF Drained, ProcessInv, FoundOK, Unharmed, sessionVars
  <2> QED BY <2>3, <2>4 DEF ProcessInv
<1> QED BY <1>1, <1>2, <1>3 DEF Handler

------------------------------------------------------------------------------
\* What the process does to requests and to GDM, besides serving them: it hosts
\* the service.  main closes the connection to GDM when nothing is handled.
LEMMA ProcessIsHost ==
  ASSUME ProcessInv,
         \/ Start \/ RunClient \/ Main \/ Handler \/ Kill \/ GdmLeaves
         \/ \E s \in {"SIGTERM", "SIGHUP"} : Interrupt(s)
  PROVE  [CloseListener \/ Disconnect]_<<calls, gdmVars>>
<1>1. ASSUME NEW exit, End(exit), UNCHANGED <<started, mixed>> PROVE Disconnect
  BY <1>1 DEF End, Disconnect
<1>2. ASSUME StopManager PROVE Disconnect
  <2>1. Busy = {}
    BY <1>2 DEF StopManager, Step, ProcessInv, ServingOK
  <2>2. \A r \in Launches : ~Listens(r)
    BY <2>1, LaunchesAssumption DEF Busy, Listens, Running
  <2> QED BY <1>2, <2>2 DEF StopManager, Disconnect
<1>3. ASSUME Serve \/ Quit PROVE CloseListener \/ UNCHANGED <<calls, gdmVars>>
  BY <1>3 DEF Serve, Quit, CloseListener
<1>4. CASE Main
  BY <1>1, <1>2, <1>3, <1>4
  DEF Main, UnlockKeyring, Execute, NewManager, NewManagerPanics, NewDaemon, Publish, Notify, Served, Uninstall, Exit
<1>5. CASE Handler
  BY <1>3, <1>5 DEF Handler, TakeSignal, Hup, Drained
<1>6. CASE Start \/ RunClient \/ Kill \/ GdmLeaves \/ \E s \in {"SIGTERM", "SIGHUP"} : Interrupt(s)
  BY <1>1, <1>6 DEF Start, RunClient, Kill, GdmLeaves, Interrupt
<1> QED BY <1>4, <1>5, <1>6

\* A request that the server takes, or that is not handled by a launch.
LEMMA ServingIsHost ==
  ASSUME GdmInv, NEW r \in Requests, Send(r) \/ Dispatch(r) \/ Answer(r)
  PROVE  Pass(r) \/ (r \in Launches /\ calls[r].pc = "sent" /\ Enter(r))
  BY DEF Send, Dispatch, Answer, Pass

\* provd serves launches as a host of the gdm service does.
LEMMA HostStep ==
  ASSUME GdmInv, ProcessInv, [Next]_vars
  PROVE  [GdmNext]_<<calls, gdmVars>>
<1>1. CASE Start \/ RunClient \/ Main \/ Handler \/ Kill \/ GdmLeaves
           \/ \E s \in {"SIGTERM", "SIGHUP"} : Interrupt(s)
  BY <1>1, ProcessIsHost DEF GdmNext
<1>2. ASSUME NEW r \in Requests, Send(r) \/ Dispatch(r) \/ Answer(r)
      PROVE  GdmNext
  BY <1>2, ServingIsHost DEF GdmNext
<1>3. ASSUME NEW r \in Launches, Leave(r) \/ Launch(r)
      PROVE  GdmNext
  BY <1>3 DEF Leave, Launch, GdmNext
<1>4. CASE GdmSteps
  BY <1>4 DEF GdmSteps, GdmNext
<1>5. CASE UNCHANGED vars
  BY <1>5 DEF vars
<1> QED BY <1>1, <1>2, <1>3, <1>4, <1>5 DEF Next, Serving, Launching

\* Steps of requests: what they do to the process.
LEMMA SendStep ==
  ASSUME GdmInv, ProcessInv, NEW r \in Requests, Send(r)
  PROVE  ProcessInv'
<1>1. calls[r].pc = "idle" /\ client /\ UNCHANGED <<processVars, sessionVars>>
  BY DEF Send
<1>2. PICK pc \in {"sent", "unavailable"} : Go(r, pc) /\ (pc = "unavailable" => socket # "live")
  BY DEF Send
<1>3. /\ calls' \in [Requests -> Call]
      /\ \A q \in Requests \ {r} : calls'[q] = calls[q]
      /\ calls'[r].pc = pc
  BY <1>2, GoTypes DEF Over
<1>4. Busy' = Busy
  BY <1>1, <1>3 DEF Busy, Running, InLaunch
<1>5. \A q \in Requests : calls'[q].pc = "unavailable" => calls[q].pc = "unavailable" \/ ~Unharmed
  BY <1>1, <1>2, <1>3 DEF ProcessInv, FoundOK
<1> QED BY <1>1, <1>4, <1>5, CallStep

LEMMA DispatchStep ==
  ASSUME GdmInv, ProcessInv, NEW r \in Requests, Dispatch(r)
  PROVE  ProcessInv'
<1>1. server = "serving" /\ UNCHANGED <<processVars, sessionVars>>
  BY DEF Dispatch
<1>2. PICK pc \in {"begin", "running", "unimplemented"} : Go(r, pc)
  BY DEF Dispatch, Enter
<1>3. \A q \in Requests : calls'[q].pc = "unavailable" => calls[q].pc = "unavailable"
  BY <1>2, GoTypes DEF Running, InLaunch, Over
<1> QED BY <1>1, <1>3, CallStep

LEMMA AnswerStep ==
  ASSUME GdmInv, ProcessInv, NEW r \in Requests, Answer(r)
  PROVE  ProcessInv'
<1>1. calls[r].pc = "running" /\ UNCHANGED <<processVars, sessionVars>>
  BY DEF Answer
<1>2. Busy # {}
  BY <1>1 DEF Busy, Running
<1>3. PICK pc \in {"ok", "error"} : Go(r, pc)
  BY DEF Answer
<1>4. \A q \in Requests : calls'[q].pc = "unavailable" => calls[q].pc = "unavailable"
  BY <1>3, GoTypes DEF Over
<1> QED BY <1>1, <1>2, <1>4, CallStep

LEMMA LeaveStep ==
  ASSUME GdmInv, ProcessInv, NEW r \in Launches, Leave(r)
  PROVE  ProcessInv'
<1>1. \A q \in Requests : calls'[q].pc = calls[q].pc
  BY GiveUpKeepsGdmInv DEF Leave
<1>2. Busy' = Busy
  BY <1>1 DEF Busy
<1> QED BY <1>1, <1>2, CallStep DEF Leave

LEMMA LaunchMoves ==
  ASSUME GdmInv, NEW r \in Launches, LaunchDesktopSession(r)
  PROVE  Listens(r) /\ \A q \in Requests : calls'[q].pc = "unavailable" => calls[q].pc = "unavailable"
<1> USE LaunchesAssumption DEF GdmInv, GdmTypeOK
<1>1. Listens(r) /\ calls[r] \in Call /\ r \in Requests
  BY DEF LaunchDesktopSession, BeginVerificationForUser, Receive, DeadlineExceeded, AnswerQuery,
         StartSessionWhenReady, Listens, InLaunch
<1>2. CASE \E pc \in InLaunch : Go(r, pc)
  BY <1>1, <1>2 DEF Go, Call, InLaunch
<1>3. CASE \E pc \in {"ok", "error"} : Return(r, pc)
  BY <1>1, <1>3, ReturnMoves DEF Moved
<1>4. CASE \E s \in calls[r].inbox :
             calls' = [calls EXCEPT ![r].inbox = @ \ {s},
                                    ![r].pc = IF s.kind = "SecretInfoQuery" THEN "answer" ELSE "start"]
  BY <1>1, <1>4 DEF Call
<1>5. \/ \E pc \in InLaunch : Go(r, pc)
      \/ \E pc \in {"ok", "error"} : Return(r, pc)
      \/ \E s \in calls[r].inbox :
            calls' = [calls EXCEPT ![r].inbox = @ \ {s},
                                   ![r].pc = IF s.kind = "SecretInfoQuery" THEN "answer" ELSE "start"]
  BY DEF LaunchDesktopSession, BeginVerificationForUser, Receive, DeadlineExceeded, AnswerQuery,
         StartSessionWhenReady, InLaunch
<1> QED BY <1>1, <1>2, <1>3, <1>4, <1>5

LEMMA LaunchStep ==
  ASSUME GdmInv, ProcessInv, NEW r \in Launches, Launch(r)
  PROVE  ProcessInv'
<1>1. Busy # {}
  BY LaunchMoves, LaunchesAssumption DEF Launch, Busy, Listens, Running
<1> QED BY <1>1, LaunchMoves, CallStep DEF Launch

LEMMA GdmStep ==
  ASSUME GdmInv, ProcessInv, GdmSteps
  PROVE  ProcessInv'
<1>1. verifying.stage \in {"query", "right", "wrong"} => verifying.of \in Launches
  BY DEF GdmInv, GdmTypeOK, Idle
<1>2. PICK kind \in {"SecretInfoQuery", "Problem", "SessionOpened"} : Reported(kind)
  BY <1>1, EmitReports DEF GdmSteps, Gdm, AskSecret, OpenSession, ReportProblem
<1>3. Busy' = Busy /\ \A q \in Requests : calls'[q].pc = "unavailable" => calls[q].pc = "unavailable"
  BY <1>2 DEF Reported, Busy
<1> QED BY <1>3, CallStep DEF GdmSteps

------------------------------------------------------------------------------
LEMMA DaemonInductive == Spec => [](GdmInv /\ ProcessInv)
<1>1. Init => GdmInv /\ ProcessInv
  <2> SUFFICES ASSUME Init PROVE GdmInv /\ ProcessInv
    OBVIOUS
  <2>1. GdmInv /\ \A r \in Requests : ~Listens(r) /\ calls[r].pc = "idle"
    BY GdmInitial DEF Init
  <2>2. Busy = {}
    BY <2>1 DEF Busy, Running, InLaunch
  <2>3. ProcessTypeOK
    <3>1. FlagsOK
      BY DEF Init, FlagsOK
    <3> QED BY <3>1, DaemonAssumption DEF Init, ProcessTypeOK, Pendings
  <2>4. ServingOK /\ AskedOK
    BY <2>2, PendingSignals DEF Init, ServingOK, AskedOK
  <2>5. FoundOK
    BY <2>1 DEF Init, FoundOK
  <2> QED BY <2>1, <2>3, <2>4, <2>5 DEF ProcessInv
<1>2. GdmInv /\ ProcessInv /\ [Next]_vars => (GdmInv /\ ProcessInv)'
  <2> SUFFICES ASSUME GdmInv, ProcessInv, [Next]_vars PROVE ProcessInv'
    BY HostStep, GdmNextKeepsGdmInv
  <2>1. CASE Main
    BY <2>1, MainStep, PanicStep, NewDaemonStep, ServeStep, ExitStep DEF Main
  <2>2. CASE Handler
    BY <2>2, HandlerStep
  <2>3. CASE Start \/ RunClient \/ Kill \/ GdmLeaves
    BY <2>3, ScriptStep, KillStep, GdmLeavesStep
  <2>4. CASE \E s \in {"SIGTERM", "SIGHUP"} : Interrupt(s)
    BY <2>4, InterruptStep
  <2>5. CASE \E r \in Requests : Send(r)
    BY <2>5, SendStep
  <2>6. CASE \E r \in Launches : Leave(r)
    BY <2>6, LeaveStep
  <2>7. CASE Serving
    BY <2>7, DispatchStep, AnswerStep DEF Serving
  <2>8. CASE Launching
    BY <2>8, LaunchStep DEF Launching
  <2>9. CASE GdmSteps
    BY <2>9, GdmStep
  <2>10. CASE UNCHANGED vars
    <3>1. UNCHANGED <<calls, gdmVars, processVars, sessionVars>>
      BY <2>10 DEF vars
    <3> QED BY <3>1, QuietRequests, CallStep
  <2> QED BY <2>1, <2>2, <2>3, <2>4, <2>5, <2>6, <2>7, <2>8, <2>9, <2>10 DEF Next
<1> QED BY <1>1, <1>2, PTL DEF Spec

------------------------------------------------------------------------------
\* The state of provd, of its requests and of GDM stays well typed.
THEOREM TypeCorrect == Spec => []TypeOK
<1>1. GdmInv /\ ProcessInv => TypeOK
  <2> SUFFICES ASSUME GdmInv, ProcessInv PROVE TypeOK
    OBVIOUS
  <2>1. pending \in Seq({"SIGTERM", "SIGHUP"}) /\ Len(pending) <= 1
    <3>1. \A s \in {"SIGTERM", "SIGHUP"} : <<s>> \in Seq({"SIGTERM", "SIGHUP"}) /\ Len(<<s>>) = 1
      OBVIOUS
    <3>2. <<>> \in Seq({"SIGTERM", "SIGHUP"}) /\ Len(<<>>) = 0
      OBVIOUS
    <3>3. CASE pending = <<>>
      BY <3>2, <3>3
    <3>4. CASE \E s \in {"SIGTERM", "SIGHUP"} : pending = <<s>>
      BY <3>1, <3>4
    <3> QED BY <3>3, <3>4 DEF ProcessInv, ProcessTypeOK, Pendings
  <2>2. GdmTypeOK /\ FlagsOK /\ ProcessTypeOK
    BY DEF GdmInv, ProcessInv, ProcessTypeOK
  <2>3. ready \in BOOLEAN /\ published \in BOOLEAN /\ client \in BOOLEAN /\ asked \in BOOLEAN
    BY <2>2 DEF FlagsOK
  <2> QED BY <2>1, <2>2, <2>3, Zenon DEF TypeOK, ProcessTypeOK
<1> QED BY <1>1, DaemonInductive, PTL

\* provd hosts the gdm service as GdmSpec asks: whatever its main, its signal handler
\* and its server do, the connection to GDM only goes when no launch is under way
\* (serve, Quit and the deferred Manager.Stop), or with all of them.
THEOREM DaemonIsHost == Spec => GdmSpec
<1>1. Init => GdmInit
  BY DEF Init
<1> QED BY <1>1, HostStep, DaemonInductive, PTL DEF Spec, GdmSpec

\* However signals overtake each other, calls on the bus fail, clients leave and
\* provd is started again: while GDM has dealt with one launch after the other,
\* a reported launch was verified with its own password and started one session.
THEOREM LaunchVerified == Spec => []LaunchedIsVerified
BY DaemonIsHost, ServiceVerifiesLaunches, PTL

\* main does not close the bus while a request is handled.
THEOREM BusOutlives == Spec => []BusOutlivesRequests
<1>1. ProcessInv => BusOutlivesRequests
  BY DEF ProcessInv, ServingOK, BusOutlivesRequests
<1> QED BY <1>1, DaemonInductive, PTL

\* An end without an error was asked for, and leaves no socket file behind.
THEOREM CleanExits == Spec => []CleanExit
<1>1. ProcessInv => CleanExit
  BY DEF ProcessInv, AskedOK, CleanExit
<1> QED BY <1>1, DaemonInductive, PTL

\* In a first start that nothing has gone wrong in, no client of the script
\* finds the socket without provd.
THEOREM ClientFinds == Spec => []ClientFindsServer
<1>1. ProcessInv => ClientFindsServer
  <2> SUFFICES ASSUME ProcessInv, ~(asked \/ code # 0 \/ main = "killed" \/ starts > 1)
               PROVE  \A r \in Requests : calls[r].pc # "unavailable"
    BY DEF ClientFindsServer
  <2>1. starts \leq 1
    BY DaemonAssumption DEF ProcessInv, ProcessTypeOK
  <2> QED BY <2>1 DEF ProcessInv, FoundOK, Unharmed
<1> QED BY <1>1, DaemonInductive, PTL
==============================================================================
