----------------------- MODULE InstallerRefreshProofs -----------------------
(***************************************************************************)
(* The safety of InstallerRefresh.  An error of check() is never shown      *)
(* because it takes the refresh page out of the history of the wizard.      *)
(***************************************************************************)
EXTENDS InstallerRefresh, TLAPS

ErrorLeftHistory == state = "error" => ~shown

IInv == TypeOK /\ BusyIsPolled /\ ErrorLeftHistory

\* check() keeps the invariant: its answers never leave a busy state behind.
LEMMA CheckStep ==
  ASSUME IInv, ClickNext \/ \E r \in Checked : CheckReply(r) PROVE IInv'
  BY DEF IInv, TypeOK, BusyIsPolled, ErrorLeftHistory, ClickNext, CheckReply, Checked

\* The user only moves between the pages and starts the loop.
LEMMA UserStep ==
  ASSUME IInv, ClickUpdate \/ Skip \/ Back \/ Quit PROVE IInv'
<1>1. CASE ClickUpdate
  BY <1>1 DEF IInv, TypeOK, BusyIsPolled, ErrorLeftHistory, ClickUpdate, Checked
<1>2. CASE Skip \/ Quit
  BY <1>2 DEF IInv, TypeOK, BusyIsPolled, ErrorLeftHistory, Skip, Quit, Checked
<1>3. CASE Back
  BY <1>3 DEF IInv, TypeOK, BusyIsPolled, ErrorLeftHistory, Back, Checked
<1> QED BY <1>1, <1>2, <1>3

\* The loop of refresh() only ends with the state done, and only it sets busy.
LEMMA LoopStep ==
  ASSUME IInv, Serve \/ ChangeEnds \/ Refreshing PROVE IInv'
<1>1. CASE Serve \/ ChangeEnds
  BY <1>1 DEF IInv, TypeOK, BusyIsPolled, ErrorLeftHistory, Serve, ChangeEnds, Checked
<1>2. CASE StartReply \/ RequestFails
  BY <1>2 DEF IInv, TypeOK, BusyIsPolled, ErrorLeftHistory, StartReply, RequestFails, Checked
<1>3. CASE Progress \/ DelayEnds
  BY <1>3 DEF IInv, TypeOK, BusyIsPolled, ErrorLeftHistory, Progress, DelayEnds, Checked
<1> QED BY <1>1, <1>2, <1>3 DEF Refreshing

\* The inductive invariant.
LEMMA Inductive == Spec => []IInv
<1>1. Init => IInv
  BY DEF Init, IInv, TypeOK, BusyIsPolled, ErrorLeftHistory, Checked
<1>2. IInv /\ [Next]_vars => IInv'
  <2> SUFFICES ASSUME IInv, [Next]_vars PROVE IInv'
    OBVIOUS
  <2>1. CASE UNCHANGED vars
    BY <2>1 DEF IInv, TypeOK, BusyIsPolled, ErrorLeftHistory, vars, Checked
  <2>2. CASE Next
    BY <2>2, CheckStep, UserStep, LoopStep DEF Next
  <2> QED BY <2>1, <2>2
<1> QED BY <1>1, <1>2, PTL DEF Spec

\* The state of the update and of its pages stays well typed.
THEOREM TypeCorrect == Spec => []TypeOK
<1>1. IInv => TypeOK BY DEF IInv
<1> QED BY <1>1, Inductive, PTL

\* A busy update, whose page has no way out, is always being polled.
THEOREM BusyPolled == Spec => []BusyIsPolled
<1>1. IInv => BusyIsPolled BY DEF IInv
<1> QED BY <1>1, Inductive, PTL

\* The refresh page never shows an error, which it offers no way out of.
THEOREM ErrorNotShown == Spec => []ErrorIsNotShown
<1>1. IInv => ErrorIsNotShown BY DEF IInv, TypeOK, ErrorLeftHistory, ErrorIsNotShown
<1> QED BY <1>1, Inductive, PTL
=============================================================================
