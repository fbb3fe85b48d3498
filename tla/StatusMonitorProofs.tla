------------------------ MODULE StatusMonitorProofs ------------------------
(***************************************************************************)
(* Theorems about StatusMonitor, for any number of subscriptions, any set   *)
(* of server states and histories of any length: type correctness, and that *)
(* what subscribers receive is what StatusFeed allows (its safety part).    *)
(***************************************************************************)
EXTENDS StatusMonitor, TLAPS

\* A monitor polls with the status its subscriber saw last, and an answer that
\* is under way is a later position in the history and a different state.
MonitorOK(m) ==
  /\ phase[m] \in {"start", "poll"} => seen[m] = status[m]
  /\ phase[m] = "poll" => status[m] # 0
  /\ phase[m] = "start" => status[m] = 0
  /\ phase[m] \in {"new", "open"} => seen[m] = 0
  /\ seen[m] <= Len(log) /\ status[m] <= Len(log)
  /\ reply[m] \notin {NoReply, Asked, Lost} =>
       /\ reply[m] \in seen[m] + 1 .. Len(log)
       /\ status[m] # 0 => log[reply[m]] # log[status[m]]

PollOK == \A m \in Monitors : MonitorOK(m)

\* The history has room for the state in which a stopped server comes back.
DownOK == ~up => Len(log) < MaxChanges

IInv == TypeOK /\ PollOK /\ DownOK

\* The history only grows: what was at a position stays there.
LEMMA AppendFacts ==
  ASSUME NEW s \in Seq(States), NEW e \in States
  PROVE  /\ Append(s, e) \in Seq(States)
         /\ Len(Append(s, e)) = Len(s) + 1
         /\ \A n \in 1..Len(s) : Append(s, e)[n] = s[n]
         /\ Append(s, e)[Len(s) + 1] = e
  OBVIOUS

LEMMA InitInv == Init => IInv
  BY MonitorAssumption DEF Init, IInv, DownOK, TypeOK, Active, PollOK, MonitorOK, Phase

\* The three steps of the server: the history grows or requests get lost.
LEMMA GrowInv ==
  ASSUME IInv, NEW e \in States, log' = Append(log, e), Len(log) < MaxChanges,
         up' = TRUE, UNCHANGED <<phase, status, reply, seen>>
  PROVE  IInv'
<1>1. TypeOK'
  BY AppendFacts, MonitorAssumption DEF IInv, TypeOK, Active
<1>2. PollOK'
  <2> SUFFICES ASSUME NEW m \in Monitors PROVE
        /\ seen[m] <= Len(log') /\ status[m] <= Len(log')
        /\ reply[m] \notin {NoReply, Asked, Lost} =>
             /\ reply[m] \in seen[m] + 1 .. Len(log')
             /\ status[m] # 0 => log'[reply[m]] # log'[status[m]]
    BY DEF IInv, PollOK, MonitorOK
  <2>1. Len(log') = Len(log) + 1 /\ \A n \in 1..Len(log) : log'[n] = log[n]
    BY AppendFacts DEF IInv, TypeOK, Active
  <2> QED BY <2>1 DEF IInv, TypeOK, Active, PollOK, MonitorOK
<1> QED BY <1>1, <1>2 DEF IInv, DownOK

LEMMA ServerInv ==
  ASSUME IInv, Server
  PROVE  IInv'
<1>1. CASE Change
  <2>1. Follows(Current) \subseteq States
    BY MonitorAssumption DEF Follows
  <2> QED BY <1>1, <2>1, GrowInv DEF Change, IInv, TypeOK
<1>2. CASE StopServer
  <2>1. \A m \in Monitors : reply'[m] \in {reply[m], Lost} /\ (reply[m] = NoReply => reply'[m] = NoReply)
    BY <1>2, MonitorAssumption DEF StopServer, IInv, TypeOK, Active
  <2>2. TypeOK'
    BY <1>2, <2>1, MonitorAssumption DEF StopServer, IInv, TypeOK, Active
  <2>3. PollOK'
    BY <1>2, <2>1, MonitorAssumption DEF StopServer, IInv, PollOK, MonitorOK
  <2> QED BY <1>2, <2>2, <2>3 DEF IInv, DownOK, StopServer
<1>3. CASE StartServer
  BY <1>3, GrowInv, MonitorAssumption DEF StartServer, IInv, TypeOK, DownOK
<1> QED BY <1>1, <1>2, <1>3 DEF Server

LEMMA AnswerInv ==
  ASSUME IInv, NEW m \in Monitors, Answer(m) \/ Break(m) \/ Garble(m)
  PROVE  IInv'
<1>1. CASE Answer(m)
  BY <1>1, MonitorAssumption DEF Answer, Differs, Current, IInv, DownOK, TypeOK, Active, PollOK, MonitorOK
<1>2. CASE Break(m)
  BY <1>2, MonitorAssumption DEF Break, IInv, DownOK, TypeOK, Active, PollOK, MonitorOK
<1>3. CASE Garble(m)
  BY <1>3, MonitorAssumption DEF Garble, IInv, DownOK, TypeOK, Active, PollOK, MonitorOK, Phase
<1> QED BY <1>1, <1>2, <1>3

LEMMA SubscriberInv ==
  ASSUME IInv, NEW m \in Monitors, Start(m) \/ Cancel(m)
  PROVE  IInv'
<1>1. CASE Start(m)
  BY <1>1, MonitorAssumption DEF Start, IInv, DownOK, TypeOK, Active, PollOK, MonitorOK, Phase
<1>2. CASE Cancel(m)
  BY <1>2, MonitorAssumption DEF Cancel, IInv, DownOK, TypeOK, Active, PollOK, MonitorOK, Phase
<1> QED BY <1>1, <1>2

\* The answer a monitor handles is null or a position after the one seen last.
LEMMA ReplyFacts ==
  ASSUME IInv, NEW m \in Monitors, reply[m] \notin {NoReply, Asked}
  PROVE  /\ StatusOf(reply[m]) \in 0..Len(log)
         /\ StatusOf(reply[m]) \in Nat
         /\ phase[m] \in {"start", "poll"}
         /\ StatusOf(reply[m]) # 0 =>
              /\ StatusOf(reply[m]) \in seen[m] + 1 .. Len(log)
              /\ seen[m] # 0 => log[StatusOf(reply[m])] # log[seen[m]]
  BY MonitorAssumption DEF StatusOf, IInv, TypeOK, Active, PollOK, MonitorOK

LEMMA StartReplyInv ==
  ASSUME IInv, NEW m \in Monitors, StartReply(m)
  PROVE  IInv'
<1> DEFINE n == StatusOf(reply[m])
<1>1. n \in 0..Len(log) /\ n \in 0..MaxChanges /\ n \in Nat
  BY ReplyFacts, MonitorAssumption DEF StartReply, IInv, TypeOK, Active
<1>2. CASE Polling(m, n)
  <2>0. n # 0
    BY <1>2 DEF Polling
  <2>1. /\ UNCHANGED <<log, up>>
        /\ phase' = [phase EXCEPT ![m] = "poll"]
        /\ status' = [status EXCEPT ![m] = n]
        /\ seen' = [seen EXCEPT ![m] = n]
        /\ reply' = [reply EXCEPT ![m] = Poll]
    BY <1>2 DEF StartReply, IInv, TypeOK, Active
  <2>2. Poll \in {Asked, Lost}
    BY DEF Poll
  <2> HIDE DEF n
  <2>3. TypeOK'
    BY <1>1, <2>1, <2>2, MonitorAssumption DEF IInv, TypeOK, Active, Phase
  <2>4. ASSUME NEW k \in Monitors PROVE MonitorOK(k)'
    <3>1. CASE k = m
      BY <1>1, <2>0, <2>1, <2>2, <3>1, MonitorAssumption DEF IInv, TypeOK, Active, MonitorOK
    <3>2. CASE k # m
      BY <2>1, <3>2 DEF IInv, TypeOK, Active, PollOK, MonitorOK
    <3> QED BY <3>1, <3>2
  <2> QED BY <2>1, <2>3, <2>4 DEF IInv, PollOK, DownOK
<1>3. CASE ~Polling(m, n)
  <2>1. /\ UNCHANGED <<log, up>>
        /\ status' = [status EXCEPT ![m] = 0]
        /\ reply' = [reply EXCEPT ![m] = NoReply]
        /\ \E s \in 0..Len(log), p \in {"open", "closed"} :
             /\ p = "open" => s = 0
             /\ phase' = [phase EXCEPT ![m] = p]
             /\ seen' = [seen EXCEPT ![m] = s]
    BY <1>1, <1>3 DEF StartReply, IInv, TypeOK, Active
  <2>2. PICK s \in 0..Len(log), p \in {"open", "closed"} :
             /\ p = "open" => s = 0
             /\ phase' = [phase EXCEPT ![m] = p]
             /\ seen' = [seen EXCEPT ![m] = s]
    BY <2>1
  <2> HIDE DEF n
  <2>3. TypeOK'
    BY <2>1, <2>2, MonitorAssumption DEF IInv, TypeOK, Active, Phase
  <2>4. ASSUME NEW k \in Monitors PROVE MonitorOK(k)'
    <3>1. CASE k = m
      BY <2>1, <2>2, <3>1, MonitorAssumption DEF IInv, TypeOK, Active, MonitorOK
    <3>2. CASE k # m
      BY <2>1, <2>2, <3>2 DEF IInv, TypeOK, Active, PollOK, MonitorOK
    <3> QED BY <3>1, <3>2
  <2> QED BY <2>1, <2>3, <2>4 DEF IInv, PollOK, DownOK
<1> QED BY <1>2, <1>3

LEMMA PollReplyInv ==
  ASSUME IInv, NEW m \in Monitors, PollReply(m)
  PROVE  IInv'
<1> DEFINE n == StatusOf(reply[m])
<1>1. n \in 0..Len(log) /\ n \in 0..MaxChanges /\ n \in Nat
  BY ReplyFacts, MonitorAssumption DEF PollReply, IInv, TypeOK, Active
<1>2. CASE Polling(m, n)
  <2>0. n # 0
    BY <1>2 DEF Polling
  <2>1. /\ UNCHANGED <<log, up>>
        /\ phase' = [phase EXCEPT ![m] = "poll"]
        /\ status' = [status EXCEPT ![m] = n]
        /\ seen' = [seen EXCEPT ![m] = n]
        /\ reply' = [reply EXCEPT ![m] = Poll]
    BY <1>2 DEF PollReply, IInv, TypeOK, Active
  <2>2. Poll \in {Asked, Lost}
    BY DEF Poll
  <2> HIDE DEF n
  <2>3. TypeOK'
    BY <1>1, <2>1, <2>2, MonitorAssumption DEF IInv, TypeOK, Active, Phase
  <2>4. ASSUME NEW k \in Monitors PROVE MonitorOK(k)'
    <3>1. CASE k = m
      BY <1>1, <2>0, <2>1, <2>2, <3>1, MonitorAssumption DEF IInv, TypeOK, Active, MonitorOK
    <3>2. CASE k # m
      BY <2>1, <3>2 DEF IInv, TypeOK, Active, PollOK, MonitorOK
    <3> QED BY <3>1, <3>2
  <2> QED BY <2>1, <2>3, <2>4 DEF IInv, PollOK, DownOK
<1>3. CASE ~Polling(m, n)
  <2>1. /\ UNCHANGED <<log, up>>
        /\ status' = [status EXCEPT ![m] = 0]
        /\ reply' = [reply EXCEPT ![m] = NoReply]
        /\ \E s \in 0..Len(log), p \in {"open", "closed"} :
             /\ p = "open" => s = 0
             /\ phase' = [phase EXCEPT ![m] = p]
             /\ seen' = [seen EXCEPT ![m] = s]
    BY <1>1, <1>3 DEF PollReply, IInv, TypeOK, Active
  <2>2. PICK s \in 0..Len(log), p \in {"open", "closed"} :
             /\ p = "open" => s = 0
             /\ phase' = [phase EXCEPT ![m] = p]
             /\ seen' = [seen EXCEPT ![m] = s]
    BY <2>1
  <2> HIDE DEF n
  <2>3. TypeOK'
    BY <2>1, <2>2, MonitorAssumption DEF IInv, TypeOK, Active, Phase
  <2>4. ASSUME NEW k \in Monitors PROVE MonitorOK(k)'
    <3>1. CASE k = m
      BY <2>1, <2>2, <3>1, MonitorAssumption DEF IInv, TypeOK, Active, MonitorOK
    <3>2. CASE k # m
      BY <2>1, <2>2, <3>2 DEF IInv, TypeOK, Active, PollOK, MonitorOK
    <3> QED BY <3>1, <3>2
  <2> QED BY <2>1, <2>3, <2>4 DEF IInv, PollOK, DownOK
<1> QED BY <1>2, <1>3

LEMMA NextInv == IInv /\ [Next]_vars => IInv'
<1> SUFFICES ASSUME IInv, [Next]_vars PROVE IInv'
  OBVIOUS
<1>1. CASE Server
  BY <1>1, ServerInv
<1>2. ASSUME NEW m \in Monitors,
             Answer(m) \/ Break(m) \/ Garble(m) \/ Start(m) \/ Cancel(m) \/ Client(m)
      PROVE  IInv'
  BY <1>2, AnswerInv, SubscriberInv, StartReplyInv, PollReplyInv DEF Client
<1>3. CASE UNCHANGED vars
  BY <1>3 DEF vars, IInv, DownOK, TypeOK, Active, PollOK, MonitorOK
<1> QED BY <1>1, <1>2, <1>3 DEF Next

LEMMA Invariance == Spec => []IInv
  BY InitInv, NextInv, PTL DEF Spec

\* Every value of the monitors' state stays in its type: in particular no
\* subscriber is ever told a status the server has not had.
THEOREM TypeCorrect == Spec => []TypeOK
<1>1. IInv => TypeOK
  BY DEF IInv
<1> QED BY <1>1, Invariance, PTL

\* A stream that stays open after its polling has ended has delivered a null
\* last (SubiquityStatusMonitor._listen and SubiquityClient.monitorStatus).
THEOREM OpenStreamsSaidNull == Spec => []SilentStreamSaidNull
<1>1. IInv => SilentStreamSaidNull
  BY DEF IInv, PollOK, MonitorOK, SilentStreamSaidNull
<1> QED BY <1>1, Invariance, PTL

-----------------------------------------------------------------------------
(* The refinement.                                                         *)

ActiveMap == [k \in Monitors |-> Active(k)]

\* A step that changes whether m is active, and nobody else.
LEMMA ActiveExcept ==
  ASSUME NEW m \in Monitors, NEW b \in BOOLEAN,
         Active(m)' = b, \A k \in Monitors \ {m} : phase'[k] = phase[k]
  PROVE  ActiveMap' = [ActiveMap EXCEPT ![m] = b]
<1>1. \A k \in Monitors \ {m} : Active(k)' = Active(k)
  BY Zenon DEF Active
<1>2. \A k \in Monitors : Active(k)' = IF k = m THEN b ELSE Active(k)
  BY <1>1, Zenon
<1>3. ActiveMap' = [k \in Monitors |-> IF k = m THEN b ELSE Active(k)]
  BY <1>2, Zenon DEF ActiveMap
<1>4. [ActiveMap EXCEPT ![m] = b] = [k \in Monitors |-> IF k = m THEN b ELSE Active(k)]
  BY Zenon DEF ActiveMap
<1> QED BY <1>3, <1>4

\* The actions set the phase of one monitor, to an active or an inactive one.
LEMMA BecomesActive ==
  ASSUME IInv, NEW m \in Monitors, NEW p \in {"start", "poll"}, phase' = [phase EXCEPT ![m] = p]
  PROVE  ActiveMap' = [ActiveMap EXCEPT ![m] = TRUE]
<1>1. phase'[m] = p /\ \A k \in Monitors \ {m} : phase'[k] = phase[k]
  BY DEF IInv, TypeOK, Active
<1>2. Active(m)' = TRUE
  BY <1>1 DEF Active
<1> QED BY <1>1, <1>2, ActiveExcept

LEMMA BecomesInactive ==
  ASSUME IInv, NEW m \in Monitors, NEW p \in {"open", "closed", "failed"},
         phase' = [phase EXCEPT ![m] = p]
  PROVE  ActiveMap' = [ActiveMap EXCEPT ![m] = FALSE]
<1>1. phase'[m] = p /\ \A k \in Monitors \ {m} : phase'[k] = phase[k]
  BY DEF IInv, TypeOK, Active
<1>2. Active(m)' = FALSE
  BY <1>1 DEF Active
<1> QED BY <1>1, <1>2, ActiveExcept

LEMMA InitRefines == Init => Feed!Init
<1> SUFFICES ASSUME Init PROVE Feed!Init
  OBVIOUS
<1>1. \A k \in Monitors : Active(k) = FALSE
  BY DEF Init, Active
<1>2. [k \in Monitors |-> Active(k)] = [k \in Monitors |-> FALSE]
  BY <1>1, Zenon
<1> QED BY <1>2 DEF Init, Feed!Init

LEMMA StepRefines ==
  ASSUME IInv, Next
  PROVE  Feed!Next \/ UNCHANGED Feed!vars
<1>1. CASE Change
  <2>1. Follows(Current) \subseteq States
    BY MonitorAssumption DEF Follows
  <2>2. Feed!Change
    BY <1>1, <2>1 DEF Change, Feed!Change, Active
  <2> QED BY <2>2 DEF Feed!Next
<1>2. CASE StopServer
  BY <1>2 DEF StopServer, Feed!vars, Active
<1>3. CASE StartServer
  <2>1. Feed!Change
    BY <1>3, MonitorAssumption DEF StartServer, Feed!Change, Active
  <2> QED BY <2>1 DEF Feed!Next
<1>4. ASSUME NEW m \in Monitors, Answer(m) \/ Break(m)
      PROVE  UNCHANGED Feed!vars
  BY <1>4 DEF Answer, Break, Feed!vars, Active
<1>5. ASSUME NEW m \in Monitors, Start(m)
      PROVE  Feed!Subscribe(m)
  <2>1. PICK p \in {"start", "failed"} : phase' = [phase EXCEPT ![m] = p]
    BY <1>5 DEF Start
  <2>3. \E b \in BOOLEAN : ActiveMap' = [ActiveMap EXCEPT ![m] = b]
    <3>1. CASE p = "start"
      BY <2>1, <3>1, BecomesActive
    <3>2. CASE p = "failed"
      BY <2>1, <3>2, BecomesInactive
    <3> QED BY <3>1, <3>2
  <2>4. ~ActiveMap[m]
    BY <1>5 DEF Start, ActiveMap, Active
  <2> QED BY <1>5, <2>3, <2>4 DEF Start, Feed!Subscribe, ActiveMap
<1>6. ASSUME NEW m \in Monitors, Cancel(m)
      PROVE  Feed!GiveUp(m) \/ UNCHANGED Feed!vars
  <2>1. CASE Active(m)
    <3>1. ActiveMap' = [ActiveMap EXCEPT ![m] = FALSE]
      BY <1>6, BecomesInactive DEF Cancel
    <3>2. ActiveMap[m]
      BY <2>1 DEF ActiveMap
    <3> QED BY <1>6, <3>1, <3>2 DEF Cancel, Feed!GiveUp, ActiveMap
  <2>2. CASE ~Active(m)
    <3>1. ActiveMap' = [ActiveMap EXCEPT ![m] = FALSE]
      BY <1>6, BecomesInactive DEF Cancel
    <3>2. [ActiveMap EXCEPT ![m] = FALSE] = ActiveMap
      <4>1. Active(m) = FALSE
        BY <2>2 DEF Active
      <4> QED BY <4>1, Zenon DEF ActiveMap
    <3>3. seen[m] = 0
      BY <1>6, <2>2 DEF Cancel, Active, IInv, PollOK, MonitorOK
    <3>4. seen' = seen
      BY <1>6, <3>3 DEF Cancel, IInv, TypeOK
    <3> QED BY <1>6, <3>1, <3>2, <3>4 DEF Cancel, Feed!vars, ActiveMap
  <2> QED BY <2>1, <2>2
<1>7. ASSUME NEW m \in Monitors, StartReply(m)
      PROVE  Feed!Report(m) \/ Feed!GiveUp(m)
  <2> DEFINE n == StatusOf(reply[m])
  <2>1. /\ n \in Nat
        /\ n # 0 => n \in seen[m] + 1 .. Len(log) /\ (seen[m] # 0 => log[n] # log[seen[m]])
    BY <1>7, ReplyFacts DEF StartReply
  <2>2. Active(m)
    BY <1>7 DEF StartReply, Active
  <2>3. CASE Polling(m, n)
    <3>1. ActiveMap' = [ActiveMap EXCEPT ![m] = TRUE]
      BY <1>7, <2>3, BecomesActive DEF StartReply
    <3>2. n # 0 /\ log[n] \notin {"DONE", "EXITED"}
      BY <2>3 DEF Polling, Final
    <3>3. seen' = [seen EXCEPT ![m] = n] /\ UNCHANGED log
      BY <1>7, <2>3 DEF StartReply
    <3>4. ActiveMap' = [ActiveMap EXCEPT ![m] = log[n] \notin {"DONE", "EXITED"}]
      BY <3>1, <3>2
    <3> QED BY <2>1, <2>2, <3>2, <3>3, <3>4 DEF Feed!Report, Feed!Final, ActiveMap
  <2>4. CASE ~Polling(m, n)
    <3>1. ActiveMap' = [ActiveMap EXCEPT ![m] = FALSE]
      BY <1>7, <2>4, BecomesInactive DEF StartReply
    <3> QED BY <1>7, <2>2, <2>4, <3>1 DEF StartReply, Feed!GiveUp, ActiveMap
  <2> QED BY <2>3, <2>4
<1>8. ASSUME NEW m \in Monitors, PollReply(m)
      PROVE  Feed!Report(m) \/ Feed!GiveUp(m)
  <2> DEFINE n == StatusOf(reply[m])
  <2>1. /\ n \in Nat
        /\ n # 0 => n \in seen[m] + 1 .. Len(log) /\ (seen[m] # 0 => log[n] # log[seen[m]])
    BY <1>8, ReplyFacts DEF PollReply
  <2>2. Active(m)
    BY <1>8 DEF PollReply, Active
  <2>3. seen' = [seen EXCEPT ![m] = n] /\ UNCHANGED log
    BY <1>8 DEF PollReply
  <2>4. CASE n = 0
    <3>1. ActiveMap' = [ActiveMap EXCEPT ![m] = FALSE]
      BY <1>8, <2>4, BecomesInactive DEF PollReply, Polling
    <3> QED BY <2>2, <2>3, <2>4, <3>1 DEF Feed!GiveUp, ActiveMap
  <2>5. CASE n # 0
    <3>1. ActiveMap' = [ActiveMap EXCEPT ![m] = log[n] \notin {"DONE", "EXITED"}]
      <4>1. CASE log[n] \in {"DONE", "EXITED"}
        <5>1. phase' = [phase EXCEPT ![m] = "closed"]
          BY <1>8, <2>5, <4>1 DEF PollReply, Polling, Final
        <5>2. ActiveMap' = [ActiveMap EXCEPT ![m] = FALSE]
          BY <5>1, BecomesInactive
        <5> QED BY <4>1, <5>2
      <4>2. CASE log[n] \notin {"DONE", "EXITED"}
        <5>1. phase' = [phase EXCEPT ![m] = "poll"]
          BY <1>8, <2>5, <4>2 DEF PollReply, Polling, Final, IInv, TypeOK, Active
        <5>2. ActiveMap' = [ActiveMap EXCEPT ![m] = TRUE]
          BY <5>1, BecomesActive
        <5> QED BY <4>2, <5>2
      <4> QED BY <4>1, <4>2
    <3> QED BY <2>1, <2>2, <2>3, <2>5, <3>1 DEF Feed!Report, Feed!Final, ActiveMap
  <2> QED BY <2>4, <2>5
<1>9. ASSUME NEW m \in Monitors, Garble(m)
      PROVE  Feed!GiveUp(m) \/ UNCHANGED Feed!vars
  <2>1. CASE phase[m] = "start"
    <3>1. phase' = [phase EXCEPT ![m] = "failed"] /\ UNCHANGED <<log, seen>>
      BY <1>9, <2>1 DEF Garble
    <3>2. ActiveMap' = [ActiveMap EXCEPT ![m] = FALSE]
      BY <3>1, BecomesInactive
    <3>3. ActiveMap[m]
      BY <2>1 DEF ActiveMap, Active
    <3>4. seen' = [seen EXCEPT ![m] = seen[m]]
      BY <3>1 DEF IInv, TypeOK
    <3> QED BY <3>1, <3>2, <3>3, <3>4 DEF Feed!GiveUp, ActiveMap
  <2>2. CASE phase[m] # "start"
    BY <1>9, <2>2 DEF Garble, Feed!vars, Active
  <2> QED BY <2>1, <2>2
<1> QED BY <1>1, <1>2, <1>3, <1>4, <1>5, <1>6, <1>7, <1>8, <1>9 DEF Next, Server, Client, Feed!Next

\* A subscription of monitorStatus() delivers states of the server in the order the
\* server was in them, none twice in a row, and nothing after a final state or a
\* null: every step of StatusMonitor is a step of StatusFeed or leaves it alone.
THEOREM MonitorImplementsFeed == Spec => Feed!Init /\ [][Feed!Next]_Feed!vars
<1>1. IInv /\ [Next]_vars => [Feed!Next]_Feed!vars
  <2> SUFFICES ASSUME IInv, [Next]_vars PROVE Feed!Next \/ UNCHANGED Feed!vars
    OBVIOUS
  <2>1. CASE Next
    BY <2>1, StepRefines
  <2>2. CASE UNCHANGED vars
    BY <2>2 DEF vars, Feed!vars, Active
  <2> QED BY <2>1, <2>2
<1> QED BY <1>1, InitRefines, Invariance, PTL DEF Spec
=============================================================================
