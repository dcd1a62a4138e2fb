------------------------- MODULE FlowControlProofs -------------------------
(***************************************************************************)
(* Proofs about FlowControl: types, the listener's view of the state, and  *)
(* the rotation of the states, for any number of goroutines and whatever   *)
(* users write.                                                            *)
(***************************************************************************)
EXTENDS FlowControl, TLAPS

(* The listener starts when the loop does. *)
StartsTogether == Started <=> loop.at \notin {"schema", "first"}

(* A state the listener has accepted and not yet stored is the next one.     *)
AcceptsNext ==
  heard.at = "store" => \/ heard.upd.state = flowState.state
                        \/ Follows(heard.upd.state, flowState.state)

(* The inductive invariant. *)
Control == TypeOK /\ InStep /\ StartsTogether /\ AcceptsNext

LEMMA MsgFacts ==
  /\ \A s \in States, m \in Modes : Update(s, m) \in Msg
  /\ \A u \in Msg : u.state \in States /\ u.mode \in Modes
  /\ NoMsg \notin Msg
  /\ \A s \in 0 .. 3 : s \in States
  BY MsgAssumption DEF Update, Msg, States

(* A change of the mode alone. *)
LEMMA NewMode ==
  ASSUME NEW u \in Msg, NEW m \in Modes
  PROVE  /\ [u EXCEPT !.mode = m] \in Msg
         /\ [u EXCEPT !.mode = m].state = u.state
  BY DEF Msg

-----------------------------------------------------------------------------
(* Type correctness. *)

LEMMA TypeInit == Init => TypeOK
<1> SUFFICES ASSUME Init PROVE TypeOK
  OBVIOUS
<1>1. row \in Msg /\ edits \in 0 .. MaxEdits /\ sender \in [Senders -> Msg \cup {NoMsg}]
  BY MsgAssumption, ControlAssumption DEF Init
<1>2. previous \in Msg /\ flowState \in Msg
  BY MsgFacts DEF Init, Modes
<1>3. /\ controller = NoMsg /\ updates = NoMsg
      /\ heard \in [at : {"asleep", "listen"}, upd : {NoMsg}]
      /\ loop \in [at : {"schema", "first", "tick", "stop", "offline", "restart", "run",
                         "refresh", "end", "pull"}, upd : {NoMsg}]
  BY DEF Init, At
<1>4. init \in BOOLEAN /\ refresh \in BOOLEAN /\ endRefresh \in BOOLEAN
  BY Zenon DEF Init
<1>6. refresher \in [Refreshers -> {"none", "born", "asleep", "select", "fire"}]
  BY DEF Init
<1>7. nights \in 0 .. MaxNights
  BY ControlAssumption DEF Init
<1>5. /\ ctx \in 0 .. MaxCycles
      /\ cycle \in [Cycles -> CycleAts]
      /\ cancelled \subseteq Cycles /\ completing \in Nat /\ permission \in 0 .. Capacity
  BY ControlAssumption DEF Init, Cycles, CycleAts
<1> QED BY <1>1, <1>2, <1>3, <1>4, <1>5, <1>6, <1>7 DEF TypeOK

LEMMA TypeController ==
  ASSUME TypeOK,
         \/ Edit \/ ApplyUpdate
         \/ \E s \in Senders : SendUpdates(s) \/ Deliver(s)
  PROVE  TypeOK'
<1>1. CASE Edit
  <2>1. row' \in Msg
    <3>1. CASE \E s \in EditStates : row' = [row EXCEPT !.state = s]
      BY <3>1 DEF TypeOK, Msg, States
    <3>2. CASE \E m \in EditModes : row' = [row EXCEPT !.mode = m]
      BY <3>2, NewMode, ControlAssumption DEF TypeOK
    <3> QED BY <1>1, <3>1, <3>2 DEF Edit
  <2>2. edits' \in 0 .. MaxEdits
    BY <1>1, ControlAssumption DEF Edit, TypeOK
  <2> QED BY <1>1, <2>1, <2>2 DEF Edit, TypeOK, hearVars, timerVars, cycleVars
<1>2. CASE ApplyUpdate
  BY <1>2 DEF ApplyUpdate, TypeOK, hearVars, timerVars, cycleVars
<1>3. ASSUME NEW s \in Senders, SendUpdates(s) PROVE TypeOK'
  BY <1>3 DEF SendUpdates, TypeOK, hearVars, timerVars, cycleVars
<1>4. ASSUME NEW s \in Senders, Deliver(s) PROVE TypeOK'
  BY <1>4 DEF Deliver, TypeOK, hearVars, timerVars, cycleVars
<1> QED BY <1>1, <1>2, <1>3, <1>4

LEMMA TypeListener == ASSUME TypeOK, Listener PROVE TypeOK'
<1>1. CASE Hear
  <2>1. controller \in Msg /\ controller' = NoMsg
    BY <1>1 DEF Hear, TypeOK
  <2>2. Answer(controller) \in Msg
    BY <2>1, MsgFacts DEF Answer, TypeOK
  <2>3. previous' \in Msg
    BY <1>1, <2>1 DEF Hear, TypeOK, Remember, hearVars
  <2>4. heard' \in [at : {"asleep", "listen"}, upd : {NoMsg}]
                   \cup [at : {"answer", "store"}, upd : Msg]
    BY <1>1, <2>1, <2>2 DEF Hear, TypeOK, With, hearVars
  <2> QED BY <1>1, <2>1, <2>3, <2>4 DEF Hear, TypeOK, rowVars, timerVars, cycleVars
<1>2. CASE Refuse
  BY <1>2 DEF Refuse, Put, At, TypeOK, rowVars, timerVars, cycleVars
<1>3. CASE TakeOn
  BY <1>3 DEF TakeOn, At, TypeOK, rowVars, timerVars, cycleVars
<1> QED BY <1>1, <1>2, <1>3 DEF Listener

LEMMA TypeStart == ASSUME TypeOK, FirstState \/ SecondState PROVE TypeOK'
<1>1. CASE FirstState
  <2>1. flowState' \in Msg /\ controller' \in Msg \cup {NoMsg}
    BY <1>1, MsgFacts DEF FirstState, TypeOK, Modes
  <2> QED BY <1>1, <2>1 DEF FirstState, At, TypeOK, rowVars, hearVars, timerVars, cycleVars
<1>2. CASE SecondState
  BY <1>2 DEF SecondState, At, TypeOK, rowVars, timerVars, cycleVars
<1> QED BY <1>1, <1>2

(* A send to PermissionChan waits for room. *)
LEMMA PermitFits == ASSUME TypeOK, Permit PROVE permission' \in 0 .. Capacity
BY ControlAssumption DEF Permit, TypeOK

LEMMA TypeTick ==
  ASSUME TypeOK, Tick \/ Stop \/ Offline \/ RestartTable \/ Send
  PROVE  TypeOK'
<1>0. \A s \in 0 .. 3 : Update(s, flowState.mode) \in Msg
  BY MsgFacts DEF TypeOK
<1>1. CASE Tick
  BY <1>1 DEF Tick, At, TypeOK, rowVars, hearVars, timerVars, cycleVars
<1>2. CASE Stop
  <2>1. loop' \in [at : {"send", "kick", "ended", "pulled"}, upd : Msg]
    BY <1>0, <1>2 DEF Stop, Stopping, With
  <2>2. cancelled' \subseteq Cycles
    BY <1>2, ControlAssumption DEF Stop, TypeOK, Cycles
  <2>3. permission' \in 0 .. Capacity
    BY <1>2, PermitFits DEF Stop
  <2> QED BY <1>2, <2>1, <2>2, <2>3 DEF Stop, TypeOK, rowVars, hearVars, timerVars
<1>3. CASE Offline
  <2>1. loop' \in [at : {"tick"}, upd : {NoMsg}] \cup [at : {"send"}, upd : Msg]
    BY <1>0, <1>3 DEF Offline, With, At
  <2>2. refresh' \in BOOLEAN
    BY <1>3 DEF Offline, TypeOK
  <2> QED BY <1>3, <2>1, <2>2 DEF Offline, TypeOK, rowVars, hearVars, cycleVars
<1>4. CASE RestartTable
  <2>1. loop' \in [at : {"send"}, upd : Msg]
    BY <1>0, <1>4 DEF RestartTable, Restarting, With
  <2> QED BY <1>4, <2>1 DEF RestartTable, TypeOK, rowVars, hearVars, timerVars, cycleVars
<1>5. CASE Send
  BY <1>5 DEF Send, Put, At, TypeOK, rowVars, hearVars, timerVars, cycleVars
<1> QED BY <1>1, <1>2, <1>3, <1>4, <1>5

LEMMA TypeRun ==
  ASSUME TypeOK, Run \/ Refresh \/ KickOff \/ EndRefresh \/ SendEnded \/ Pull \/ SendPulled
  PROVE  TypeOK'
<1>0. \A m \in Modes : Update(2, m) \in Msg
  BY MsgFacts
<1>1. CASE Run
  <2>1. cycle' \in [Cycles -> CycleAts]
    BY <1>1 DEF Run, TypeOK, CycleAts
  <2> QED BY <1>1, <2>1 DEF Run, At, TypeOK, rowVars, hearVars, timerVars
<1>2. CASE Refresh
  <2>1. flowState' \in Msg
    <3>1. "InvalidRefreshMode" \in Modes
      BY DEF Modes
    <3> QED BY <1>2, <3>1, NewMode DEF Refresh, TypeOK
  <2>2. loop' \in [at : {"end", "pull"}, upd : {NoMsg}] \cup [at : {"kick", "ended"}, upd : Msg]
    BY <1>0, <1>2 DEF Refresh, With, At, Modes
  <2>3. endRefresh' \in BOOLEAN
    BY <1>2 DEF Refresh, TypeOK
  <2> QED BY <1>2, <2>1, <2>2, <2>3 DEF Refresh, TypeOK, rowVars, hearVars, cycleVars
<1>3. CASE KickOff
  BY <1>3 DEF KickOff, Put, At, TypeOK, rowVars, hearVars, cycleVars
<1>4. CASE EndRefresh
  <2>1. loop' \in [at : {"ended"}, upd : Msg]
    BY <1>0, <1>4 DEF EndRefresh, With, Modes
  <2> QED BY <1>4, <2>1 DEF EndRefresh, TypeOK, rowVars, hearVars, cycleVars
<1>5. CASE SendEnded
  BY <1>5 DEF SendEnded, Put, At, TypeOK, rowVars, hearVars, timerVars, cycleVars
<1>6. CASE Pull
  <2>1. flowState' \in Msg
    <3>1. "pullsynccomplete" \in Modes
      BY DEF Modes
    <3> QED BY <1>6, <3>1, NewMode DEF Pull, TypeOK
  <2>2. loop' \in [at : {"tick"}, upd : {NoMsg}] \cup [at : {"pulled"}, upd : Msg]
    BY <1>0, <1>6 DEF Pull, With, At, Modes
  <2> QED BY <1>6, <2>1, <2>2 DEF Pull, TypeOK, rowVars, hearVars, timerVars, cycleVars
<1>7. CASE SendPulled
  BY <1>7 DEF SendPulled, Put, At, TypeOK, rowVars, hearVars, timerVars, cycleVars
<1> QED BY <1>1, <1>2, <1>3, <1>4, <1>5, <1>6, <1>7

LEMMA TypeRefresher ==
  ASSUME TypeOK, NEW r \in Refreshers, Refresher(r)
  PROVE  TypeOK'
<1>1. CASE Sleep(r)
  BY <1>1 DEF Sleep, TypeOK, rowVars, hearVars, cycleVars
<1>2. CASE Midnight(r)
  BY <1>2, ControlAssumption DEF Midnight, TypeOK, rowVars, hearVars, cycleVars
<1>3. CASE Fire(r)
  <2>1. Update(3, "refreshingDaily") \in Msg
    BY MsgFacts DEF Modes
  <2> QED BY <1>3, <2>1 DEF Fire, Put, TypeOK, rowVars, hearVars, cycleVars
<1>4. CASE EndReceived(r)
  BY <1>4 DEF EndReceived, TypeOK, rowVars, hearVars, cycleVars
<1> QED BY <1>1, <1>2, <1>3, <1>4 DEF Refresher

LEMMA TypeCycle ==
  ASSUME TypeOK, SendComplete \/ \E c \in Cycles : CycleNext(c)
  PROVE  TypeOK'
<1>1. CASE SendComplete
  <2>1. Update(2, "pullcomplete") \in Msg
    BY MsgFacts DEF Modes
  <2> QED BY <1>1, <2>1 DEF SendComplete, Put, TypeOK, rowVars, hearVars, timerVars
<1>2. ASSUME NEW c \in Cycles, Begin(c) PROVE TypeOK'
  <2>1. ctx' \in 0 .. MaxCycles /\ cycle' \in [Cycles -> CycleAts]
    BY <1>2, ControlAssumption DEF Begin, Cycles, TypeOK, CycleAts
  <2> QED BY <1>2, <2>1 DEF Begin, TypeOK, rowVars, hearVars, timerVars
<1>3. ASSUME NEW c \in Cycles, ResetMode(c) PROVE TypeOK'
  <2>1. flowState' \in Msg
    <3>1. "pullcomplete" \in Modes
      BY DEF Modes
    <3> QED BY <1>3, <3>1, NewMode DEF ResetMode, TypeOK
  <2>2. cycle' \in [Cycles -> CycleAts]
    BY <1>3 DEF ResetMode, TypeOK, CycleAts
  <2> QED BY <1>3, <2>1, <2>2 DEF ResetMode, TypeOK, rowVars, hearVars, timerVars
<1>4. ASSUME NEW c \in Cycles, Loaded(c) \/ Ready(c) PROVE TypeOK'
  <2>1. cycle' \in [Cycles -> CycleAts]
    BY <1>4 DEF Loaded, Ready, TypeOK, CycleAts
  <2> QED BY <1>4, <2>1 DEF Loaded, Ready, TypeOK, rowVars, hearVars, timerVars
<1>5. ASSUME NEW c \in Cycles, SendPermission(c) PROVE TypeOK'
  <2>1. cycle' \in [Cycles -> CycleAts] /\ init' \in BOOLEAN
    BY <1>5 DEF SendPermission, TypeOK, CycleAts
  <2>2. permission' \in 0 .. Capacity
    BY <1>5, PermitFits DEF SendPermission
  <2> QED BY <1>5, <2>1, <2>2 DEF SendPermission, TypeOK, rowVars, hearVars, timerVars
<1> QED BY <1>1, <1>2, <1>3, <1>4, <1>5 DEF CycleNext

LEMMA TypeInterface == ASSUME TypeOK, Interface PROVE TypeOK'
<1>1. permission' \in 0 .. Capacity
  <2>1. CASE OtherFlow
    BY <2>1, PermitFits DEF OtherFlow
  <2>2. CASE ReadPermission
    BY <2>2, ControlAssumption DEF ReadPermission, TypeOK
  <2> QED BY <2>1, <2>2 DEF Interface
<1> QED
  BY <1>1 DEF Interface, OtherFlow, ReadPermission, TypeOK, rowVars, hearVars, timerVars,
              cycleVars

LEMMA TypeNext == TypeOK /\ [Next]_vars => TypeOK'
<1> SUFFICES ASSUME TypeOK, [Next]_vars PROVE TypeOK'
  OBVIOUS
<1>1. CASE UNCHANGED vars
  BY <1>1 DEF vars, TypeOK, rowVars, hearVars, timerVars, cycleVars
<1>2. CASE Loop
  BY <1>2, TypeStart, TypeTick, TypeRun DEF Loop
<1> QED
  BY <1>1, <1>2, TypeController, TypeListener, TypeRefresher, TypeCycle,
       TypeInterface DEF Next

(* Every variable keeps its type. *)
THEOREM TypeCorrect == Spec => []TypeOK
<1> QED BY TypeInit, TypeNext, PTL DEF Spec

-----------------------------------------------------------------------------
(* The states. *)

(* What the three parts of the invariant are about. *)
Same ==
  /\ UNCHANGED <<previous, heard>>
  /\ flowState'.state = flowState.state
  /\ loop'.at \in {"schema", "first"} <=> loop.at \in {"schema", "first"}

LEMMA SameKeeps ==
  ASSUME InStep, StartsTogether, AcceptsNext, Same
  PROVE  (InStep /\ StartsTogether /\ AcceptsNext)'
BY DEF InStep, StartsTogether, AcceptsNext, Same, Started

(* Most steps touch none of it: the mode changes, never the state. *)
LEMMA SameLoop ==
  ASSUME TypeOK, Loop, ~FirstState, ~SecondState
  PROVE  Same
<1>0. /\ flowState \in Msg
      /\ \A m \in Modes : [flowState EXCEPT !.mode = m].state = flowState.state
      /\ "InvalidRefreshMode" \in Modes /\ "pullsynccomplete" \in Modes
  BY NewMode DEF TypeOK, Modes
<1>1. CASE Tick \/ Run
  BY <1>1 DEF Tick, Run, Same, At, hearVars
<1>2. CASE Stop \/ Offline \/ RestartTable
  BY <1>2 DEF Stop, Offline, RestartTable, Stopping, Restarting, Same, At, With, hearVars
<1>3. CASE Send \/ SendEnded \/ SendPulled \/ KickOff
  BY <1>3 DEF Send, SendEnded, SendPulled, KickOff, Same, At, hearVars
<1>4. CASE EndRefresh
  BY <1>4 DEF EndRefresh, Same, With, hearVars
<1>5. CASE Refresh
  <2>1. flowState'.state = flowState.state
    BY <1>0, <1>5 DEF Refresh
  <2>2. loop'.at \in {"kick", "end", "pull", "ended"} /\ loop.at = "refresh"
    BY <1>5 DEF Refresh, At, With
  <2>3. UNCHANGED <<previous, heard>>
    BY <1>5 DEF Refresh, hearVars
  <2> QED BY <2>1, <2>2, <2>3 DEF Same
<1>6. CASE Pull
  <2>1. flowState'.state = flowState.state
    BY <1>0, <1>6 DEF Pull
  <2>2. loop'.at \in {"tick", "pulled"} /\ loop.at = "pull"
    BY <1>6 DEF Pull, At, With
  <2>3. UNCHANGED <<previous, heard>>
    BY <1>6 DEF Pull, hearVars
  <2> QED BY <2>1, <2>2, <2>3 DEF Same
<1> QED BY <1>1, <1>2, <1>3, <1>4, <1>5, <1>6 DEF Loop

LEMMA SameElsewhere ==
  ASSUME TypeOK,
         \/ Edit \/ ApplyUpdate \/ SendComplete \/ Interface \/ UNCHANGED vars
         \/ \E s \in Senders : SendUpdates(s) \/ Deliver(s)
         \/ \E r \in Refreshers : Refresher(r)
         \/ \E c \in Cycles : CycleNext(c)
  PROVE  Same
<1>1. CASE Edit \/ ApplyUpdate \/ SendComplete \/ Interface
  <2>1. UNCHANGED <<previous, heard, flowState, loop>>
    BY <1>1 DEF Edit, ApplyUpdate, SendComplete, Interface, OtherFlow, ReadPermission, hearVars
  <2> QED BY <2>1 DEF Same
<1>2. CASE UNCHANGED vars
  BY <1>2 DEF vars, Same, hearVars
<1>3. ASSUME NEW s \in Senders, SendUpdates(s) \/ Deliver(s) PROVE Same
  <2>1. UNCHANGED <<previous, heard, flowState, loop>>
    BY <1>3 DEF SendUpdates, Deliver, hearVars
  <2> QED BY <2>1 DEF Same
<1>4. ASSUME NEW r \in Refreshers, Refresher(r) PROVE Same
  <2>1. UNCHANGED <<previous, heard, flowState, loop>>
    BY <1>4 DEF Refresher, Sleep, Midnight, Fire, EndReceived, hearVars
  <2> QED BY <2>1 DEF Same
<1>5. ASSUME NEW c \in Cycles, CycleNext(c) PROVE Same
  <2>1. CASE Begin(c) \/ Loaded(c) \/ Ready(c) \/ SendPermission(c)
    BY <2>1 DEF Begin, Loaded, Ready, SendPermission, Same, hearVars
  <2>2. CASE ResetMode(c)
    <3>1. [flowState EXCEPT !.mode = "pullcomplete"].state = flowState.state
      BY NewMode DEF TypeOK, Modes
    <3> QED BY <2>2, <3>1 DEF ResetMode, Same, hearVars
  <2> QED BY <1>5, <2>1, <2>2 DEF CycleNext
<1> QED BY <1>1, <1>2, <1>3, <1>4, <1>5

(* A step of the listener. *)
LEMMA ListenerKeeps ==
  ASSUME Control, Listener
  PROVE  (InStep /\ StartsTogether /\ AcceptsNext)'
<1> USE DEF Control, InStep, StartsTogether, AcceptsNext, Started
<1>1. CASE Hear
  <2>1. Started /\ UNCHANGED <<flowState, loop>> /\ previous.state = flowState.state
    BY <1>1 DEF Hear
  <2>2. CASE UNCHANGED hearVars
    BY <1>1, <2>1, <2>2 DEF Hear, hearVars
  <2>3. CASE heard' = With("answer", Answer(controller)) /\ UNCHANGED previous
    BY <2>1, <2>3 DEF With
  <2>4. CASE ~OutOfTurn(controller) /\ Remember(controller) /\ heard' = With("store", controller)
    BY <2>1, <2>4 DEF With, OutOfTurn, Remember
  <2> QED BY <1>1, <2>2, <2>3, <2>4 DEF Hear
<1>2. CASE Refuse
  BY <1>2 DEF Refuse, At
<1>3. CASE TakeOn
  BY <1>3 DEF TakeOn, At
<1> QED BY <1>1, <1>2, <1>3 DEF Listener

LEMMA StartKeeps ==
  ASSUME Control, FirstState \/ SecondState
  PROVE  (InStep /\ StartsTogether /\ AcceptsNext)'
<1> USE DEF Control, InStep, StartsTogether, AcceptsNext, Started
<1>1. CASE FirstState
  BY <1>1 DEF FirstState, At, hearVars
<1>2. CASE SecondState
  BY <1>2 DEF SecondState, At
<1> QED BY <1>1, <1>2

LEMMA ControlInit == Init => Control
BY TypeInit DEF Control, Init, InStep, StartsTogether, AcceptsNext, Started, At

LEMMA ControlNext == Control /\ [Next]_vars => Control'
<1> SUFFICES ASSUME Control, [Next]_vars PROVE Control'
  OBVIOUS
<1>1. TypeOK'
  BY TypeNext DEF Control
<1>2. CASE Listener
  BY <1>1, <1>2, ListenerKeeps DEF Control
<1>3. CASE FirstState \/ SecondState
  BY <1>1, <1>3, StartKeeps DEF Control
<1>4. CASE Same
  BY <1>1, <1>4, SameKeeps DEF Control
<1> QED BY <1>2, <1>3, <1>4, SameLoop, SameElsewhere DEF Next, Control

LEMMA ControlAlways == Spec => []Control
BY ControlInit, ControlNext, PTL DEF Spec

(* The listener's previousState is the state the flow runs on, or is about to:  *)
(* what it compares a message with is never stale.                              *)
THEOREM InStepAlways == Spec => []InStep
<1>1. Control => InStep
  BY DEF Control
<1> QED BY <1>1, ControlAlways, PTL

(* What PreviousStateCheck says of two states, as a cycle. *)
LEMMA CycleOfFour ==
  ASSUME NEW s \in Nat, NEW t \in Nat, Follows(t, s)
  PROVE  \/ s \in 0 .. 3 /\ t = (s + 1) % 4
         \/ s = 3 /\ t \notin 0 .. 3
<1>1. CASE t = 0
  BY <1>1 DEF Follows, PreviousStateCheck
<1>2. CASE t = 1
  BY <1>2 DEF Follows, PreviousStateCheck
<1>3. CASE t = 2
  BY <1>3 DEF Follows, PreviousStateCheck
<1>4. CASE t = 3
  BY <1>4 DEF Follows, PreviousStateCheck
<1>5. CASE t \notin 0 .. 3
  BY <1>5 DEF Follows, PreviousStateCheck
<1> QED BY <1>1, <1>2, <1>3, <1>4, <1>5

(* All states of a flow rotate in a 0-3 cycle: for any number of senders, in    *)
(* any order, and whatever states users write.                                  *)
THEOREM RotateAlways == Spec => StatesRotate
<1> DEFINE Rotates == LET s == flowState.state
                          t == flowState'.state
                      IN \/ t = s
                         \/ s \in 0 .. 3 /\ t = (s + 1) % 4
                         \/ s = 3 /\ t \notin 0 .. 3
<1>1. Control /\ [Next]_vars => [Started => Rotates]_vars
  <2> SUFFICES ASSUME Control, [Next]_vars, Started
               PROVE  Rotates
    OBVIOUS
  <2>1. CASE Hear \/ Refuse
    BY <2>1 DEF Hear, Refuse
  <2>2. CASE TakeOn
    <3>1. flowState'.state = flowState.state \/ Follows(flowState'.state, flowState.state)
      BY <2>2 DEF TakeOn, Control, AcceptsNext
    <3>2. flowState.state \in Nat /\ flowState'.state \in Nat
      <4>1. flowState \in Msg /\ flowState' \in Msg
        BY TypeNext DEF Control, TypeOK
      <4>2. \A u \in Msg : u.state \in Nat
        <5>1. States \subseteq Nat
          BY ControlAssumption DEF States
        <5> QED BY <5>1, MsgFacts
      <4> QED BY <4>1, <4>2
    <3> QED BY <3>1, <3>2, CycleOfFour
  <2>3. CASE FirstState \/ SecondState
    BY <2>3 DEF FirstState, SecondState, Control, StartsTogether
  <2>4. CASE Same
    BY <2>4 DEF Same
  <2> QED BY <2>1, <2>2, <2>3, <2>4, SameLoop, SameElsewhere DEF Next, Listener, Control
<1> QED BY <1>1, ControlAlways, PTL DEF Spec, StatesRotate
=============================================================================
