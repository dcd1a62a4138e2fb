---------------------------- MODULE FlowControl ----------------------------
(***************************************************************************)
(* How a flow is started, stopped and refreshed.  A flow has a row in the  *)
(* TierceronFlow table: its state (0 stopped, 1 starting, 2 running, 3     *)
(* shutting down) and its syncMode.  The controller flow reads the row and *)
(* sends it to the flow, one goroutine for each row it reads; the flow     *)
(* listens, keeps what it accepts in FlowState and answers what it refuses *)
(* with an update of the row.  The flow's own loop wakes at every ingest   *)
(* interval, acts on FlowState and asks for the next state with an update  *)
(* of the row, which comes back to the listener like any other.            *)
(*                                                                         *)
(* The flow is the one flow in the repository whose loop does all of this, *)
(* DataFlowStatistics.  A sync cycle is known by the number of its Context;*)
(* what it does is FlowSync's.  flowAlias and SyncFilter are left out.     *)
(***************************************************************************)
EXTENDS Naturals, FiniteSets

CONSTANTS
  Senders,      \* bound: goroutines of sendUpdates that are alive at one time
  Refreshers,   \* bound: goroutines of KickOffTimedRefresh
  NoMsg,        \* nothing in a channel, or in a goroutine's hand
  FirstRows,    \* what vault may hold of the row when the plugin comes up
  EditStates,   \* states a user writes into the row
  EditModes,    \* syncModes a user writes into the row
  MaxEdits,     \* bound: writes of users
  MaxNights,    \* bound: firings of a timed refresh
  MaxCycles,    \* bound: SyncTableCycle calls
  Capacity      \* of PermissionChan (10)

Modes ==
  {"nosync", "pullonce", "pullsynccomplete", "pullcomplete", "refreshDaily",
   "refreshingDaily", "refreshEnd", "refreshEnded", "refreshHourly", "InvalidRefreshMode"}

ASSUME ControlAssumption ==
  /\ EditStates \subseteq Nat
  /\ EditModes \subseteq Modes
  /\ MaxEdits \in Nat /\ MaxNights \in Nat /\ MaxCycles \in Nat /\ Capacity \in Nat

States == EditStates \cup (0 .. 3)
Msg    == [state : States, mode : Modes]

ASSUME MsgAssumption == NoMsg \notin Msg /\ FirstRows \subseteq Msg

VARIABLES
  row,         \* the flow's row of the TierceronFlow table
  edits,       \* writes of users so far
  sender,      \* the message each sendUpdates goroutine has to send
  controller,  \* flowStateController, a channel of one
  updates,     \* flowStateReceiver, a channel of one
  previous,    \* the listener's previousState
  heard,       \* where the listener is, with the message it took
  flowState,   \* tfContext.FlowState
  loop,        \* where ProcessDataFlowStatConfigurations is, and its update
  init,        \* tfContext.Init
  refresh,     \* the package variable of that name
  endRefresh,  \* is there a value in endRefreshChan?
  refresher,   \* where each timed refresh is
  nights,      \* firings of a timed refresh so far
  ctx,         \* number of the flow's current Context
  cycle,       \* where the sync cycle of each Context is
  cancelled,   \* the Contexts that have been cancelled
  completing,  \* goroutines with a pullcomplete to send
  permission   \* messages in PermissionChan, which all flows share

rowVars   == <<row, edits, sender>>
hearVars  == <<previous, heard>>
timerVars == <<refresh, endRefresh, refresher, nights>>
cycleVars == <<ctx, cycle, cancelled, completing>>
vars == <<rowVars, controller, updates, hearVars, flowState, loop, init,
          timerVars, cycleVars, permission>>

Cycles == 1 .. MaxCycles
At(s)        == [at |-> s, upd |-> NoMsg]
With(s, u)   == [at |-> s, upd |-> u]
Update(s, m) == [state |-> s, mode |-> m]

\* The loop, or a load with a permission to send, holds FlowLock while it is there.
Locked   == loop.at \in {"kick", "end", "ended", "pulled"}
Seizing  == \E c \in Cycles : cycle[c] = "seized"
LockFree == ~Locked /\ ~Seizing

Init ==
  /\ row \in FirstRows /\ edits = 0
  /\ sender = [s \in Senders |-> NoMsg]
  /\ controller = NoMsg /\ updates = NoMsg
  /\ previous = Update(0, "nosync") /\ heard = At("asleep")
  /\ flowState = Update(0, "nosync") /\ loop = At("schema")
  /\ init = TRUE
  /\ refresh = FALSE /\ endRefresh = FALSE
  /\ refresher = [r \in Refreshers |-> "none"] /\ nights = 0
  /\ ctx = 0 /\ cycle = [c \in Cycles |-> "none"] /\ cancelled = {} /\ completing = 0
  /\ permission = 0

-----------------------------------------------------------------------------
(* The controller flow. *)

Edit ==
  /\ edits < MaxEdits
  /\ edits' = edits + 1
  /\ \/ \E s \in EditStates : row' = [row EXCEPT !.state = s]
     \/ \E m \in EditModes : row' = [row EXCEPT !.mode = m]
  /\ UNCHANGED <<sender, controller, updates, hearVars, flowState, loop, init,
                 timerVars, cycleVars, permission>>

\* At every interval, and when the row has been persisted.
SendUpdates(s) ==
  /\ sender[s] = NoMsg
  /\ sender' = [sender EXCEPT ![s] = row]
  /\ UNCHANGED <<row, edits, controller, updates, hearVars, flowState, loop,
                 init, timerVars, cycleVars, permission>>

\* The goroutines of sendUpdates get to the channel in any order.
Deliver(s) ==
  /\ sender[s] # NoMsg /\ controller = NoMsg
  /\ controller' = sender[s]
  /\ sender' = [sender EXCEPT ![s] = NoMsg]
  /\ UNCHANGED <<row, edits, updates, hearVars, flowState, loop, init, timerVars,
                 cycleVars, permission>>

\* A receiver goroutine updates the row.  The next update may be in the channel
\* while it does: the model lets that one wait at its sender.
ApplyUpdate ==
  /\ updates # NoMsg
  /\ row' = updates /\ updates' = NoMsg
  /\ UNCHANGED <<edits, sender, controller, hearVars, flowState, loop, init,
                 timerVars, cycleVars, permission>>

Put(u) == updates = NoMsg /\ updates' = u
Permit == permission < Capacity /\ permission' = permission + 1

-----------------------------------------------------------------------------
(* The listener. *)

PreviousStateCheck(s) ==
  CASE s = 0 -> 3 [] s = 1 -> 0 [] s = 2 -> 1 [] s = 3 -> 2 [] OTHER -> 3

Follows(s, p) == p = PreviousStateCheck(s)

\* A flow that refreshes daily is not restarted by a mode other than refreshEnd.
KeepsRefreshing(u) ==
  /\ previous.mode = "refreshingDaily" /\ u.mode # "refreshEnd" /\ u.state = 2
  /\ ~Follows(u.state, previous.state)

\* Mutant of OutOfTurn: the states are not compared.
NeverOutOfTurn(u) == FALSE
OutOfTurn(u)      == ~Follows(u.state, previous.state) /\ u.state # previous.state

Answer(u) ==
  IF KeepsRefreshing(u) THEN Update(u.state, previous.mode)
                        ELSE Update(previous.state, u.mode)

\* Mutant of Remember: the listener compares with its first state for good.
RememberFirst(u) == UNCHANGED previous
Remember(u)      == previous' = u

\* Nothing new, a refusal, or a state the flow takes on.
Hear ==
  /\ heard.at = "listen" /\ controller # NoMsg
  /\ controller' = NoMsg
  /\ LET u == controller IN
       \/ previous = u /\ UNCHANGED hearVars
       \/ /\ previous # u /\ (KeepsRefreshing(u) \/ OutOfTurn(u))
          /\ heard' = With("answer", Answer(u))
          /\ UNCHANGED previous
       \/ /\ previous # u /\ ~KeepsRefreshing(u) /\ ~OutOfTurn(u)
          /\ Remember(u)
          /\ heard' = With("store", u)
  /\ UNCHANGED <<rowVars, updates, flowState, loop, init, timerVars, cycleVars,
                 permission>>

Refuse ==
  /\ heard.at = "answer"
  /\ Put(heard.upd)
  /\ heard' = At("listen")
  /\ UNCHANGED <<rowVars, controller, previous, flowState, loop, init, timerVars,
                 cycleVars, permission>>

TakeOn ==
  /\ heard.at = "store" /\ LockFree
  /\ flowState' = heard.upd
  /\ heard' = At("listen")
  /\ UNCHANGED <<rowVars, controller, updates, previous, loop, init, timerVars,
                 cycleVars, permission>>

-----------------------------------------------------------------------------
(* ProcessDataFlowStatConfigurations: the start, and the loop. *)

\* AddTableSchema waits 15 seconds for a state.
FirstState ==
  /\ loop.at = "schema"
  /\ \/ controller # NoMsg /\ flowState' = controller /\ controller' = NoMsg
     \/ flowState' = Update(0, "nosync") /\ UNCHANGED controller
  /\ loop' = At("first")
  /\ UNCHANGED <<rowVars, updates, hearVars, init, timerVars, cycleVars,
                 permission>>

\* The flow waits for another one, and starts the listener with it.
SecondState ==
  /\ loop.at = "first" /\ controller # NoMsg
  /\ flowState' = controller /\ controller' = NoMsg
  /\ previous' = controller /\ heard' = At("listen")
  /\ init' = TRUE
  /\ loop' = At("tick")
  /\ UNCHANGED <<rowVars, updates, timerVars, cycleVars, permission>>

\* A state that is none of the four is ignored until the next interval.
Tick ==
  /\ loop.at = "tick" /\ LockFree
  /\ \/ flowState.state = 3 /\ loop' = At("stop")
     \/ flowState.state = 0 /\ loop' = At("offline")
     \/ flowState.state = 1 /\ loop' = At("restart")
     \/ flowState.state = 2 /\ loop' = At("run")
  /\ UNCHANGED <<rowVars, controller, updates, hearVars, flowState, init,
                 timerVars, cycleVars, permission>>

\* Mutant of Stopping: the flow does not ask for the next state.
StopsSilently == At("tick")
Stopping      == With("send", Update(0, flowState.mode))

\* State 3: a permission, which waits while PermissionChan is full, and then
\* CancelContext, if the flow has ever been loaded.
Stop ==
  /\ loop.at = "stop" /\ Permit
  /\ cancelled' = IF ctx = 0 THEN cancelled ELSE cancelled \cup {ctx}
  /\ loop' = Stopping
  /\ UNCHANGED <<rowVars, controller, updates, hearVars, flowState, init,
                 timerVars, ctx, cycle, completing>>

\* State 0: a daily refresh starts the flow again.
Offline ==
  /\ loop.at = "offline"
  /\ \/ /\ flowState.mode = "refreshingDaily"
        /\ refresh' = TRUE
        /\ loop' = With("send", Update(1, flowState.mode))
     \/ /\ flowState.mode # "refreshingDaily"
        /\ loop' = At("tick")
        /\ UNCHANGED refresh
  /\ UNCHANGED <<rowVars, controller, updates, hearVars, flowState, init,
                 endRefresh, refresher, nights, cycleVars, permission>>

\* Mutant of Restarting: state 1 is taken for the running state.
RestartsRunning == At("run")
Restarting      == With("send", Update(2, flowState.mode))

\* State 1: the table is truncated, to be loaded in state 2.
RestartTable ==
  /\ loop.at = "restart"
  /\ init' = TRUE
  /\ loop' = Restarting
  /\ UNCHANGED <<rowVars, controller, updates, hearVars, flowState, timerVars,
                 cycleVars, permission>>

Send ==
  /\ loop.at = "send"
  /\ Put(loop.upd)
  /\ loop' = At("tick")
  /\ UNCHANGED <<rowVars, controller, hearVars, flowState, init, timerVars,
                 cycleVars, permission>>

\* State 2: a table that is not loaded gets a sync cycle, at every interval
\* until the load has ended.
Run ==
  /\ loop.at = "run"
  /\ \/ \E c \in Cycles :
          /\ init /\ cycle[c] = "none" /\ \A d \in 1 .. c - 1 : cycle[d] # "none"
          /\ cycle' = [cycle EXCEPT ![c] = "born"]
     \/ /\ ~init \/ \A c \in Cycles : cycle[c] # "none"
        /\ UNCHANGED cycle
  /\ loop' = At("refresh")
  /\ UNCHANGED <<rowVars, controller, updates, hearVars, flowState, init,
                 timerVars, ctx, cancelled, completing, permission>>

\* The syncModes that begin with refresh, under FlowLock.  A mode whose refresh
\* is not known is answered with InvalidRefreshMode.
Refresh ==
  /\ loop.at = "refresh" /\ LockFree
  /\ LET m == flowState.mode IN
       \/ /\ m = "refreshDaily" \/ (m = "refreshingDaily" /\ ~refresh)
          /\ loop' = With("kick", Update(2, "refreshingDaily"))
          /\ UNCHANGED <<flowState, endRefresh>>
       \/ /\ m = "refreshEnd"
          /\ loop' = At("end")
          /\ UNCHANGED <<flowState, endRefresh>>
       \/ /\ m = "refreshEnded"
          /\ endRefresh' = FALSE
          /\ loop' = At("pull")
          /\ UNCHANGED flowState
       \/ /\ m = "refreshHourly"
          /\ flowState' = [flowState EXCEPT !.mode = "InvalidRefreshMode"]
          /\ loop' = With("ended", Update(2, "InvalidRefreshMode"))
          /\ UNCHANGED endRefresh
       \/ /\ m \notin {"refreshDaily", "refreshEnd", "refreshEnded", "refreshHourly"}
          /\ m = "refreshingDaily" => refresh
          /\ loop' = At("pull")
          /\ UNCHANGED <<flowState, endRefresh>>
  /\ UNCHANGED <<rowVars, controller, updates, hearVars, init, refresh,
                 refresher, nights, cycleVars, permission>>

\* KickOffTimedRefresh("Daily"): the update, then a goroutine.
KickOff ==
  /\ loop.at = "kick"
  /\ Put(loop.upd)
  /\ \/ \E r \in Refreshers :
          refresher[r] = "none" /\ refresher' = [refresher EXCEPT ![r] = "born"]
     \/ (\A r \in Refreshers : refresher[r] # "none") /\ UNCHANGED refresher
  /\ loop' = At("pull")
  /\ UNCHANGED <<rowVars, controller, hearVars, flowState, init, refresh,
                 endRefresh, nights, cycleVars, permission>>

\* KickOffTimedRefresh("End"): endRefreshChan holds one value.
EndRefresh ==
  /\ loop.at = "end" /\ ~endRefresh
  /\ endRefresh' = TRUE /\ refresh' = FALSE
  /\ loop' = With("ended", Update(2, "refreshEnded"))
  /\ UNCHANGED <<rowVars, controller, updates, hearVars, flowState, init,
                 refresher, nights, cycleVars, permission>>

SendEnded ==
  /\ loop.at = "ended"
  /\ Put(loop.upd)
  /\ loop' = At("pull")
  /\ UNCHANGED <<rowVars, controller, hearVars, flowState, init, timerVars,
                 cycleVars, permission>>

\* syncMode pullonce, under FlowLock again.
Pull ==
  /\ loop.at = "pull" /\ LockFree
  /\ \/ /\ flowState.mode = "pullonce"
        /\ flowState' = [flowState EXCEPT !.mode = "pullsynccomplete"]
        /\ loop' = With("pulled", Update(2, "pullsynccomplete"))
     \/ /\ flowState.mode # "pullonce"
        /\ loop' = At("tick")
        /\ UNCHANGED flowState
  /\ UNCHANGED <<rowVars, controller, updates, hearVars, init, timerVars,
                 cycleVars, permission>>

SendPulled ==
  /\ loop.at = "pulled"
  /\ Put(loop.upd)
  /\ loop' = At("tick")
  /\ UNCHANGED <<rowVars, controller, hearVars, flowState, init, timerVars,
                 cycleVars, permission>>

-----------------------------------------------------------------------------
(* The goroutines of KickOffTimedRefresh. *)

Sleep(r) ==
  /\ refresher[r] = "born"
  /\ refresh' = TRUE
  /\ refresher' = [refresher EXCEPT ![r] = "asleep"]
  /\ UNCHANGED <<rowVars, controller, updates, hearVars, flowState, loop, init,
                 endRefresh, nights, cycleVars, permission>>

\* Midnight, and every 24 hours after it: ask for state 3.
Midnight(r) ==
  /\ refresher[r] \in {"asleep", "select"} /\ nights < MaxNights
  /\ nights' = nights + 1
  /\ refresher' = [refresher EXCEPT ![r] = "fire"]
  /\ UNCHANGED <<rowVars, controller, updates, hearVars, flowState, loop, init,
                 refresh, endRefresh, cycleVars, permission>>

Fire(r) ==
  /\ refresher[r] = "fire"
  /\ Put(Update(3, "refreshingDaily"))
  /\ refresher' = [refresher EXCEPT ![r] = "select"]
  /\ UNCHANGED <<rowVars, controller, hearVars, flowState, loop, init, refresh,
                 endRefresh, nights, cycleVars, permission>>

EndReceived(r) ==
  /\ refresher[r] = "select" /\ endRefresh
  /\ endRefresh' = FALSE
  /\ refresher' = [refresher EXCEPT ![r] = "none"]
  /\ UNCHANGED <<rowVars, controller, updates, hearVars, flowState, loop, init,
                 refresh, nights, cycleVars, permission>>

-----------------------------------------------------------------------------
(* SyncTableCycle and the load it starts, as far as they touch the flow's state. *)

Begin(c) ==
  /\ cycle[c] = "born"
  /\ ctx' = c
  /\ cycle' = [cycle EXCEPT ![c] = "reset"]
  /\ UNCHANGED <<rowVars, controller, updates, hearVars, flowState, loop, init,
                 timerVars, cancelled, completing, permission>>

\* A pull that was complete when the flow starts.
ResetMode(c) ==
  /\ cycle[c] = "reset" /\ LockFree
  /\ \/ /\ flowState.mode = "pullsynccomplete"
        /\ flowState' = [flowState EXCEPT !.mode = "pullcomplete"]
        /\ completing' = completing + 1
     \/ /\ flowState.mode # "pullsynccomplete"
        /\ UNCHANGED <<flowState, completing>>
  /\ cycle' = [cycle EXCEPT ![c] = "load"]
  /\ UNCHANGED <<rowVars, controller, updates, hearVars, loop, init, timerVars,
                 ctx, cancelled, permission>>

\* Mutant of SendComplete: sent without a pull.
SendCompleteAlways ==
  /\ Put(Update(2, "pullcomplete"))
  /\ completing' = completing - 1
  /\ UNCHANGED <<rowVars, controller, hearVars, flowState, loop, init, timerVars,
                 ctx, cycle, cancelled, permission>>

SendComplete ==
  /\ completing > 0
  /\ Put(Update(2, "pullcomplete"))
  /\ completing' = completing - 1
  /\ UNCHANGED <<rowVars, controller, hearVars, flowState, loop, init, timerVars,
                 ctx, cycle, cancelled, permission>>

\* The load: it ends, or has a permission to send and keeps FlowLock until
\* PermissionChan has room for it.
Loaded(c) ==
  /\ cycle[c] = "load" /\ LockFree
  /\ \/ init /\ cycle' = [cycle EXCEPT ![c] = "seized"]
     \/ cycle' = [cycle EXCEPT ![c] = "loaded"]
  /\ UNCHANGED <<rowVars, controller, updates, hearVars, flowState, loop, init,
                 timerVars, ctx, cancelled, completing, permission>>

\* After the load: a load that gave up has left the permission to the cycle,
\* which sends it without FlowLock.
Ready(c) ==
  /\ cycle[c] = "loaded" /\ LockFree
  /\ cycle' = [cycle EXCEPT ![c] = IF init THEN "permit" ELSE "runs"]
  /\ UNCHANGED <<rowVars, controller, updates, hearVars, flowState, loop, init,
                 timerVars, ctx, cancelled, completing, permission>>

\* The permission goes out and clears Init: it may do so after the table has
\* been wiped for another load.
SendPermission(c) ==
  /\ Permit
  /\ \/ cycle[c] = "seized" /\ cycle' = [cycle EXCEPT ![c] = "loaded"]
     \/ cycle[c] = "permit" /\ cycle' = [cycle EXCEPT ![c] = "runs"]
  /\ init' = FALSE
  /\ UNCHANGED <<rowVars, controller, updates, hearVars, flowState, loop,
                 timerVars, ctx, cancelled, completing>>

-----------------------------------------------------------------------------
(* PermissionChan.  Other flows send to it too; what reads it comes up with an *)
(* interface, which may never happen.                                          *)

OtherFlow ==
  /\ Permit
  /\ UNCHANGED <<rowVars, controller, updates, hearVars, flowState, loop,
                 init, timerVars, cycleVars>>

ReadPermission ==
  /\ permission > 0
  /\ permission' = permission - 1
  /\ UNCHANGED <<rowVars, controller, updates, hearVars, flowState, loop,
                 init, timerVars, cycleVars>>

-----------------------------------------------------------------------------
Listener   == Hear \/ Refuse \/ TakeOn
Loop ==
  \/ FirstState \/ SecondState \/ Tick \/ Stop \/ Offline \/ RestartTable \/ Send
  \/ Run \/ Refresh \/ KickOff \/ EndRefresh \/ SendEnded \/ Pull \/ SendPulled
Refresher(r) == Sleep(r) \/ Midnight(r) \/ Fire(r) \/ EndReceived(r)
CycleNext(c) ==
  Begin(c) \/ ResetMode(c) \/ Loaded(c) \/ Ready(c) \/ SendPermission(c)
Interface == OtherFlow \/ ReadPermission

Next ==
  \/ Edit \/ ApplyUpdate \/ Listener \/ Loop \/ SendComplete \/ Interface
  \/ \E s \in Senders : SendUpdates(s) \/ Deliver(s)
  \/ \E r \in Refreshers : Refresher(r)
  \/ \E c \in Cycles : CycleNext(c)

Spec == Init /\ [][Next]_vars

\* Go runs every goroutine that can go on; one that waits for a channel or for
\* FlowLock gets its turn (each is sequential, so its steps are one condition).
\* The controller reads the row at every interval.  Nothing is assumed of users,
\* of the time of day, of the other flows and of what reads PermissionChan.
Fairness ==
  /\ WF_vars(ApplyUpdate)
  /\ SF_vars(Listener) /\ SF_vars(Loop) /\ SF_vars(SendComplete)
  /\ \A s \in Senders : WF_vars(SendUpdates(s)) /\ SF_vars(Deliver(s))
  /\ \A r \in Refreshers : SF_vars(Sleep(r) \/ Fire(r))
  /\ \A c \in Cycles : SF_vars(CycleNext(c))

FairSpec == Spec /\ Fairness

-----------------------------------------------------------------------------
CycleAts == {"none", "born", "reset", "load", "seized", "loaded", "permit", "runs"}

TypeOK ==
  /\ row \in Msg
  /\ edits \in 0 .. MaxEdits
  /\ sender \in [Senders -> Msg \cup {NoMsg}]
  /\ controller \in Msg \cup {NoMsg}
  /\ updates \in Msg \cup {NoMsg}
  /\ previous \in Msg
  /\ heard \in [at : {"asleep", "listen"}, upd : {NoMsg}]
               \cup [at : {"answer", "store"}, upd : Msg]
  /\ flowState \in Msg
  /\ loop \in [at : {"schema", "first", "tick", "stop", "offline", "restart", "run",
                     "refresh", "end", "pull"}, upd : {NoMsg}]
              \cup [at : {"send", "kick", "ended", "pulled"}, upd : Msg]
  /\ init \in BOOLEAN
  /\ refresh \in BOOLEAN /\ endRefresh \in BOOLEAN
  /\ refresher \in [Refreshers -> {"none", "born", "asleep", "select", "fire"}]
  /\ nights \in 0 .. MaxNights
  /\ ctx \in 0 .. MaxCycles
  /\ cycle \in [Cycles -> CycleAts]
  /\ cancelled \subseteq Cycles
  /\ completing \in Nat
  /\ permission \in 0 .. Capacity

Started == heard.at # "asleep"

(* "All states for flows rotate in a 0-3 cycle": whatever users write and      *)
(* however late or out of order messages arrive, FlowState only ever goes to    *)
(* the next state of the cycle, once the flow has its first one.  What is none  *)
(* of the four states can only follow 3, and nothing follows it.                *)
StatesRotate ==
  [][Started =>
       LET s == flowState.state
           t == flowState'.state
       IN \/ t = s
          \/ s \in 0 .. 3 /\ t = (s + 1) % 4
          \/ s = 3 /\ t \notin 0 .. 3]_vars

\* What the listener compares with is what the flow runs on.
InStep ==
  Started => previous.state = IF heard.at = "store" THEN heard.upd.state ELSE flowState.state

\* An interface has come up: PermissionChan has room again and again.
Drained == []<>(permission < Capacity)

(* "3 shutdown -> stops running -> sets itself to 0 when finished": once users *)
(* write nothing more, a flow that shuts down comes to state 0, if what reads  *)
(* PermissionChan has come up and the loop does not wait for a refresh to end. *)
ShutdownCompletes ==
  Drained => ((Started /\ flowState.state = 3) ~> (flowState.state # 3 \/ loop.at = "end"))

(* "1 start -> wipes table -> sets itself to 2", under the same conditions.    *)
StartupCompletes ==
  Drained => ((Started /\ flowState.state = 1) ~> (flowState.state # 1 \/ loop.at = "end"))
=============================================================================
