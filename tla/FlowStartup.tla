---------------------------- MODULE FlowStartup ----------------------------
(***************************************************************************)
(* ProcessFlows: the start of all the flows of an environment.  It opens   *)
(* vault, reads the configuration, builds two engines and starts the       *)
(* controller flow, whose goroutine it follows by two wait groups and an   *)
(* alert: controllerInitWG (the controller has its connections),           *)
(* flowStateInitAlert (the states of the flows have been sent) and         *)
(* InitConfigWG (the TierceronFlow table is loaded).  Then come the other  *)
(* flows, and two database interfaces; the goroutine that drains           *)
(* PermissionChan belongs to an interface.                                 *)
(*                                                                         *)
(* A run is one call of ProcessFlows; the backend (TrcdbBackend) makes one *)
(* for every configuration it takes from its queue.  What a flow does once *)
(* its table is loaded is FlowControl's and FlowSync's.                    *)
(***************************************************************************)
EXTENDS Naturals

CONSTANTS
  Runs,         \* bound: calls of ProcessFlows
  Flows,        \* the flows of the tables, the additional and the test flows
  Envs,         \* environments
  NoEnv,        \* the environment of a run that has not begun
  Capacity      \* of PermissionChan (10)

ASSUME StartupAssumption == NoEnv \notin Envs /\ Capacity \in Nat \ {0}

VARIABLES
  envOf,      \* the environment of each run
  main,       \* where ProcessFlows is in each run
  controller, \* where the goroutine of the controller flow is
  interval,   \* dbingestinterval of the source database: is it positive?
  initWG,     \* controllerInitWG
  alert,      \* flowStateInitAlert, a channel of one
  configWG,   \* InitConfigWG; 2 when the pointer is nil again
  flow,       \* where the goroutine of each flow is
  permission, \* messages in PermissionChan
  face,       \* the two interfaces of each run
  port        \* the run that holds each interface's port, for an environment

mainVars == <<envOf, main, interval>>
ctlVars  == <<controller, initWG, alert, configWG>>
flowVars == <<flow, permission>>
faceVars == <<face, port>>
startupVars == <<mainVars, ctlVars, flowVars, faceVars>>

Doors == {"controller", "db"}
Free  == "free"
Nil   == 2

StartupInit ==
  /\ envOf = [r \in Runs |-> NoEnv] /\ main = [r \in Runs |-> "idle"]
  /\ interval = [r \in Runs |-> TRUE]
  /\ controller = [r \in Runs |-> "none"]
  /\ initWG = [r \in Runs |-> 0] /\ alert = [r \in Runs |-> FALSE]
  /\ configWG = [r \in Runs |-> 0]
  /\ flow = [r \in Runs |-> [f \in Flows |-> "none"]]
  /\ permission = [r \in Runs |-> 0]
  /\ face = [r \in Runs |-> [d \in Doors |-> "closed"]]
  /\ port = [e \in Envs |-> [d \in Doors |-> Free]]

Main(r, s)       == main' = [main EXCEPT ![r] = s]
Controller(r, s) == controller' = [controller EXCEPT ![r] = s]
Flow(r, f, s)    == flow' = [flow EXCEPT ![r][f] = s]

-----------------------------------------------------------------------------
(* ProcessFlows, up to the controller. *)

Begin(r, e) ==
  /\ main[r] = "idle"
  /\ Main(r, "vault") /\ envOf' = [envOf EXCEPT ![r] = e]
  /\ UNCHANGED <<interval, ctlVars, flowVars, faceVars>>

\* Vault twice, once with the address and the token of the certificates.  When
\* the deployed status cannot be updated, the err that is returned is nil.
OpenVault(r) ==
  /\ main[r] = "vault"
  /\ \E s \in {"config", "error", "nothing"} : Main(r, s)
  /\ UNCHANGED <<envOf, interval, ctlVars, flowVars, faceVars>>

\* A region without a configuration is skipped; an Identity, VaultDatabase or
\* SpiralDatabase without one ends the start-up, again with a nil err.
LoadConfigs(r) ==
  /\ main[r] = "config"
  /\ \E s \in {"engine", "error", "nothing"} : Main(r, s)
  /\ \E positive \in BOOLEAN : interval' = [interval EXCEPT ![r] = positive]
  /\ UNCHANGED <<envOf, ctlVars, flowVars, faceVars>>

\* The channels, the engines, the connections and the change tables; the
\* authentication of an extension may fail and is logged.  The second engine is
\* used whether it could be made or not: without one there is a panic, which ends
\* the plugin, of which the end of this run is followed only.
BuildEngine(r) ==
  /\ main[r] = "engine"
  /\ \E s \in {"start", "error"} : Main(r, s)
  /\ UNCHANGED <<envOf, interval, ctlVars, flowVars, faceVars>>

StartController(r) ==
  /\ main[r] = "start"
  /\ initWG' = [initWG EXCEPT ![r] = 1] /\ configWG' = [configWG EXCEPT ![r] = 1]
  /\ Controller(r, "vault")
  /\ Main(r, "connections")
  /\ UNCHANGED <<envOf, interval, alert, flowVars, faceVars>>

\* Mutant of AwaitController: the connections are not waited for.
AwaitNothing(r) ==
  /\ main[r] = "connections"
  /\ Main(r, "spawn")
  /\ UNCHANGED <<envOf, interval, ctlVars, flowVars, faceVars>>
AwaitController(r) ==
  /\ main[r] = "connections" /\ initWG[r] = 0
  /\ Main(r, "alert")
  /\ UNCHANGED <<envOf, interval, ctlVars, flowVars, faceVars>>

\* The channel is polled every second.
TakeAlert(r) ==
  /\ main[r] = "alert" /\ alert[r]
  /\ alert' = [alert EXCEPT ![r] = FALSE]
  /\ Main(r, "spawn")
  /\ UNCHANGED <<envOf, interval, controller, initWG, configWG, flowVars, faceVars>>

-----------------------------------------------------------------------------
(* The controller flow. *)

\* A controller that cannot reach vault leaves its wait groups as they are.
ControllerVault(r) ==
  /\ controller[r] = "vault"
  /\ \E s \in {"connect", "ended"} : Controller(r, s)
  /\ UNCHANGED <<mainVars, initWG, alert, configWG, flowVars, faceVars>>

\* Mutant of Connected: controllerInitWG is not counted down.
ConnectedUncounted(r) == UNCHANGED initWG
Connected(r)          == initWG' = [initWG EXCEPT ![r] = 0]

\* A connection that fails three times is gone without.
ControllerConnect(r) ==
  /\ controller[r] = "connect"
  /\ Connected(r)
  /\ Controller(r, "load")
  /\ UNCHANGED <<mainVars, alert, configWG, flowVars, faceVars>>

\* SyncTableCycle.  The row is loaded from vault, then InitConfigWG is counted
\* down unless it is nil; the permission goes into the controller's own channel.
ControllerLoad(r) ==
  /\ controller[r] = "load"
  /\ configWG' = [configWG EXCEPT ![r] = IF @ = Nil THEN Nil ELSE 0]
  /\ Controller(r, IF interval[r] THEN "import" ELSE "ended")
  /\ UNCHANGED <<mainVars, initWG, alert, flowVars, faceVars>>

\* tierceronFlowImport, the first time: the states are sent, then the alert.
FirstImport(r) ==
  /\ controller[r] = "import"
  /\ alert' = [alert EXCEPT ![r] = TRUE]
  /\ Controller(r, "checking")
  /\ UNCHANGED <<mainVars, initWG, configWG, flowVars, faceVars>>

-----------------------------------------------------------------------------
(* The other flows. *)

StartFlows(r) ==
  /\ main[r] = "spawn"
  /\ flow' = [flow EXCEPT ![r] = [f \in Flows |-> "load"]]
  /\ Main(r, "configured")
  /\ UNCHANGED <<envOf, interval, ctlVars, permission, faceVars>>

\* A flow that cannot reach vault, or has no controller of its own, ends.
FlowLoad(r, f) ==
  /\ flow[r][f] = "load"
  /\ \E s \in {"permit", "ended"} : Flow(r, f, s)
  /\ UNCHANGED <<mainVars, ctlVars, permission, faceVars>>

\* Mutant of FlowPermit: the channel has no end.
PermitUnbounded(r, f) ==
  /\ flow[r][f] = "permit"
  /\ permission' = [permission EXCEPT ![r] = @ + 1]
  /\ Flow(r, f, "running")
  /\ UNCHANGED <<mainVars, ctlVars, faceVars>>
FlowPermit(r, f) ==
  /\ flow[r][f] = "permit" /\ permission[r] < Capacity
  /\ permission' = [permission EXCEPT ![r] = @ + 1]
  /\ Flow(r, f, "running")
  /\ UNCHANGED <<mainVars, ctlVars, faceVars>>

-----------------------------------------------------------------------------
(* The interfaces. *)

\* The controller has an interface if it is configured.  Where no region had a
\* configuration the address is put into a nil map, again a panic.
AwaitConfig(r) ==
  /\ main[r] = "configured" /\ configWG[r] = 0
  /\ configWG' = [configWG EXCEPT ![r] = Nil]
  /\ \E s \in Doors \cup {"error"} : Main(r, s)
  /\ UNCHANGED <<envOf, interval, controller, initWG, alert, flowVars, faceVars>>

\* BuildInterface.  No port, no certificate or a port that is taken are errors;
\* privileges that cannot be flushed leave the port taken and nobody behind it.
\* A run that serves is in flowWG.Wait for good: the loop of the controller, which
\* has sent the states, has no end.
Opened(r, d, s) ==
  /\ port[envOf[r]][d] = Free
  /\ port' = [port EXCEPT ![envOf[r]][d] = r]
  /\ face' = [face EXCEPT ![r][d] = s]

BuildInterface(r, d, next) ==
  /\ main[r] = d
  /\ \/ Main(r, "error") /\ UNCHANGED faceVars
     \/ \E s \in {"open", "unread"} : Opened(r, d, s) /\ Main(r, next)
  /\ UNCHANGED <<envOf, interval, ctlVars, flowVars>>

\* Mutant of ReadPermission: only the controller's interface starts the reader.
ReadByController(r) ==
  /\ face[r]["controller"] = "open" /\ permission[r] > 0
  /\ permission' = [permission EXCEPT ![r] = @ - 1]
  /\ UNCHANGED <<mainVars, ctlVars, flow, faceVars>>
ReadPermission(r) ==
  /\ face[r]["db"] = "open" /\ permission[r] > 0
  /\ permission' = [permission EXCEPT ![r] = @ - 1]
  /\ UNCHANGED <<mainVars, ctlVars, flow, faceVars>>

StartupStep(r) ==
  \/ OpenVault(r) \/ LoadConfigs(r) \/ BuildEngine(r) \/ StartController(r)
  \/ AwaitController(r) \/ TakeAlert(r) \/ StartFlows(r) \/ AwaitConfig(r)
  \/ BuildInterface(r, "controller", "db") \/ BuildInterface(r, "db", "serving")
ControllerStep(r) ==
  ControllerVault(r) \/ ControllerConnect(r) \/ ControllerLoad(r) \/ FirstImport(r)
FlowStep(r, f) == FlowLoad(r, f) \/ FlowPermit(r, f)

RunNext(r) ==
  StartupStep(r) \/ ControllerStep(r) \/ ReadPermission(r) \/ \E f \in Flows : FlowStep(r, f)

-----------------------------------------------------------------------------
StartupTypeOK ==
  /\ envOf \in [Runs -> Envs \cup {NoEnv}]
  /\ main \in [Runs -> {"idle", "vault", "config", "engine", "start", "connections",
                        "alert", "spawn", "configured", "controller", "db", "serving",
                        "error", "nothing"}]
  /\ controller \in [Runs -> {"none", "vault", "connect", "load", "import", "checking",
                              "ended"}]
  /\ interval \in [Runs -> BOOLEAN]
  /\ initWG \in [Runs -> 0 .. 1] /\ alert \in [Runs -> BOOLEAN]
  /\ configWG \in [Runs -> {0, 1, Nil}]
  /\ flow \in [Runs -> [Flows -> {"none", "load", "permit", "running", "ended"}]]
  /\ permission \in [Runs -> 0 .. Capacity]
  /\ face \in [Runs -> [Doors -> {"closed", "open", "unread"}]]
  /\ port \in [Envs -> [Doors -> Runs \cup {Free}]]
=============================================================================
