-------------------------------- MODULE Trcsh --------------------------------
(***************************************************************************)
(* trcsh, the deployment shell.  On unix it is the driver: it asks the hat *)
(* for its secrets and runs one script.  On windows it is the agent: it    *)
(* learns which deployments it serves and starts a goroutine for each,     *)
(* which waits for a controller, loads the script of the deployment from   *)
(* vault, runs its commands and waits again.  Both run the same            *)
(* ProcessDeploy; the secrets, the agent configuration and the cache of    *)
(* modifiers are shared by the goroutines of a process.                    *)
(*                                                                         *)
(* A script is a number of pipelines, a pipeline a number of commands, and *)
(* a command a tool that may fail in every way.  The state of a session    *)
(* (RunState) is changed by the library that talks to the controller:      *)
(* Request and Controller stand for it.  TrcShellRaw is empty, and an      *)
(* agent runs in a TrcDeploy directory.                                    *)
(***************************************************************************)
EXTENDS CapAuth, ModifierCache

CONSTANTS
  Main,         \* CommonMain, which is the driver's shell too
  Deployments,  \* bound: the shells of the agent
  MaxVersion,   \* bound: versions of the script in vault
  Requests,     \* bound: sessions of a deployment
  Pipelines,    \* bound: pipelines of a script
  Commands,     \* bound: commands of a pipeline
  MessageRoom,  \* of DeploymentCtlMessageChan (5)
  MaxPending    \* bound: goroutines blocked on it, for a deployment

ASSUME TrcshAssumption ==
  /\ Main \notin Deployments
  /\ {MaxVersion, Pipelines, Commands, MessageRoom} \subseteq Nat \ {0}
  /\ {Requests, MaxPending} \subseteq Nat

VARIABLES
  agent,     \* windows?
  alive,     \* the process has not exited
  agentSet,  \* gAgentConfig is set
  config,    \* gTrcshConfig
  at, tries, \* where each goroutine is, and the queries that failed it
  phase,     \* of TrcshAuth
  content,   \* the version of the script each goroutine holds; 0 for none
  place,     \* the pipeline and the command it is at
  tool,      \* the command
  held,      \* the token of the modifier it uses, and the one it asked for
  pipe,      \* the pipeline whose output io/STDIO holds; 0 when it is empty
  kube,      \* onceKubeInit is done
  runState, messages, pending, \* a session, its channel, blocked senders
  script,    \* the version vault holds
  wanted, requests \* the version when a waiting shell was asked; sessions so far

shellVars   == <<agent, alive, agentSet, config, phase>>
sessionVars == <<runState, messages, pending>>
scriptVars  == <<content, place, tool, held, pipe, kube>>
worldVars   == <<script, wanted, requests>>
shell       == <<at, tries>>
vars == <<capVars, cache, shellVars, shell, scriptVars, sessionVars, worldVars>>

Shells == Deployments \cup {Main}
Phases == <<"kubeconfig", "caddress", "configrole", "pubrole", "ctoken">>
NoConfig == [k \in Keys |-> "nil"]
NoToken  == <<"none", "none">>
Running  == {"command", "use", "used", "sent"}

Init ==
  /\ CapInit /\ CacheInit
  /\ agent \in BOOLEAN /\ alive = TRUE /\ agentSet = FALSE
  /\ config = NoConfig /\ phase = 0
  /\ at = [s \in Shells |-> IF s = Main THEN "start" ELSE "none"]
  /\ tries = [s \in Shells |-> 0]
  /\ content = [s \in Shells |-> 0] /\ place = [s \in Shells |-> <<1, 1>>]
  /\ tool = [s \in Shells |-> "none"] /\ held = [s \in Shells |-> NoToken]
  /\ pipe = [s \in Shells |-> 0] /\ kube = [s \in Shells |-> FALSE]
  /\ runState = [s \in Shells |-> "started"]
  /\ messages = [s \in Shells |-> 0] /\ pending = [s \in Shells |-> 0]
  /\ script = 1 /\ wanted = [s \in Shells |-> 0] /\ requests = [s \in Shells |-> 0]

Goto(s, l) == at' = [at EXCEPT ![s] = l]
Exit       == alive' = FALSE /\ UNCHANGED <<agent, agentSet, config, phase>>
Live       == UNCHANGED shellVars

-----------------------------------------------------------------------------
(* Secrets. *)

\* Four variables of the environment and a supported host, or the driver's role
\* and secret; root may not run it.
CommonMain ==
  /\ at[Main] = "start"
  /\ \/ Goto(Main, IF agent THEN "agent" ELSE "vaddress") /\ Live
     \/ Exit /\ UNCHANGED at
  /\ UNCHANGED <<capVars, cache, tries, scriptVars, sessionVars, worldVars>>

\* NewAgentConfig reads the agent's secrets, all of which must be there.
NewAgentConfig ==
  /\ at[Main] = "agent"
  /\ \/ Goto(Main, "configrole") /\ Live
     \/ Exit /\ UNCHANGED at
  /\ UNCHANGED <<capVars, cache, tries, scriptVars, sessionVars, worldVars>>

\* A query is asked again when it fails or knows only the placeholder, and the
\* process exits when Queries of them came to nothing.  Main keeps the answer,
\* an empty one too; a goroutine's is its own, and must not be empty.
RetryingPenseFeatherQuery(s, k, next) ==
  \E a \in PenseFeatherQuery(k) :
     IF Accepted(a)
     THEN /\ tries' = [tries EXCEPT ![s] = 0]
          /\ \/ /\ s = Main /\ Goto(s, next)
                /\ config' = [config EXCEPT ![k] = a]
                /\ UNCHANGED <<agent, alive, agentSet, phase>>
             \/ s # Main /\ a # "empty" /\ Goto(s, next) /\ Live
             \/ s # Main /\ a = "empty" /\ Exit /\ UNCHANGED at
     ELSE /\ tries' = [tries EXCEPT ![s] = (tries[s] + 1) % Queries]
          /\ IF tries[s] + 1 = Queries THEN Exit ELSE Live
          /\ UNCHANGED at

AgentSecrets ==
  /\ \/ at[Main] = "configrole" /\ RetryingPenseFeatherQuery(Main, "configrole", "caddress")
     \/ at[Main] = "caddress" /\ RetryingPenseFeatherQuery(Main, "caddress", "deployers")
  /\ UNCHANGED <<capVars, cache, scriptVars, sessionVars, worldVars>>

\* GetDeployers lists the plugins of type trcshservice with the configuration
\* role, and releases its modifier; a plugin it cannot read is left out.  The
\* deployments of the shard are served.  An empty role has no two halves, and an
\* empty address is nobody's.
GetDeployers ==
  /\ at[Main] = "deployers"
  /\ agentSet' = TRUE /\ UNCHANGED <<agent, config, phase>>
  /\ \/ \E served \in SUBSET Deployments :
          /\ \A k \in Feathers : config[k] = "value"
          /\ at' = [s \in Shells |-> IF s = Main THEN "wait"
                                     ELSE IF s \in served THEN "served" ELSE at[s]]
          /\ cache' = Released(Taken, NewModifier("config")) /\ UNCHANGED alive
     \/ alive' = FALSE /\ UNCHANGED <<at, cache>>
  /\ UNCHANGED <<capVars, tries, scriptVars, sessionVars, worldVars>>

\* A goroutine for each, with a channel to its controller; an unsupported one
\* ends the process.
EnableDeployer(s) ==
  /\ at[s] = "served"
  /\ \/ Goto(s, "vaddress") /\ Live
     \/ Exit /\ UNCHANGED at
  /\ UNCHANGED <<capVars, cache, tries, scriptVars, sessionVars, worldVars>>

\* ProcessDeploy: the address of vault, which an agent's goroutine keeps to itself.
TrcshVAddress(s) ==
  /\ at[s] = "vaddress"
  /\ IF s # Main
     THEN RetryingPenseFeatherQuery(s, "caddress", "auth")
     ELSE /\ \E a \in PenseQuery("caddress") :
               IF a \in {"nil", "empty"} THEN Exit /\ UNCHANGED at ELSE Goto(s, "auth") /\ Live
          /\ UNCHANGED tries
  /\ UNCHANGED <<capVars, cache, scriptVars, sessionVars, worldVars>>

\* The agent has its token; the driver logs in with a role and a secret.
Authenticate(s) ==
  /\ at[s] = "auth"
  /\ \/ Goto(s, "secrets") /\ Live
     \/ s = Main /\ Exit /\ UNCHANGED at
  /\ UNCHANGED <<capVars, cache, tries, scriptVars, sessionVars, worldVars>>

IsValid ==
  \A k \in IF agentSet THEN Feathers ELSE Keys \ {"ctoken"} : config[k] \notin {"nil", "empty"}

\* TrcshAuth asks for one secret after the other and returns what it has with
\* the first error; it is called until the configuration is valid, for which the
\* elevated token need not be there.  The
\* kubeconfig of staging and prod is a file, without which the shell exits.
TrcshAuth(s) ==
  /\ at[s] = "secrets" /\ (phase = 0 => ~IsValid)
  /\ LET k == Phases[phase + 1]
         before == IF phase = 0 THEN NoConfig ELSE config IN
     \E a \in PenseQuery(k) \cup (IF phase = 0 THEN {"value"} ELSE {}) :
       /\ config' = [before EXCEPT ![k] = a]
       /\ phase' = IF a \in {"nil", "empty"} \/ phase + 1 = Len(Phases) THEN 0 ELSE phase + 1
       /\ alive' \in IF phase = 0 THEN {TRUE, FALSE} ELSE {TRUE}
  /\ UNCHANGED <<agent, agentSet, capVars, cache, shell, scriptVars, sessionVars, worldVars>>

\* The driver's script: generated by trcconfig from a template, whose tokens
\* are then reset, or a file.  Without one there is nothing to run.
Preload(s) ==
  /\ at[s] = "secrets" /\ IsValid /\ phase = 0
  /\ IF s = Main
     THEN \/ /\ \E v \in {0, script} : content' = [content EXCEPT ![s] = v]
             /\ cache' \in {cache, ResetModifier(Taken)}
             /\ Goto(s, "loaded") /\ Live
          \/ Exit /\ UNCHANGED <<at, cache, content>>
     ELSE Goto(s, "idle") /\ Live /\ UNCHANGED <<cache, content>>
  /\ UNCHANGED <<capVars, tries, place, tool, held, pipe, kube, sessionVars, worldVars>>

-----------------------------------------------------------------------------
(* Running a script. *)

\* LoadPluginDeploymentScript: the role logs in, reads the plugin's
\* certification and renders its deploy.trc; its modifier is not released.
\* After a failure the goroutine sleeps and waits for a session again.
LoadPluginDeploymentScript(s) ==
  /\ at[s] = "idle" /\ runState[s] = "resetting" /\ content[s] = 0
  /\ \/ content' = [content EXCEPT ![s] = script] /\ cache' = Taken /\ Goto(s, "loaded")
     \/ cache' \in {cache, Taken} /\ UNCHANGED <<at, content>>
  /\ Live
  /\ UNCHANGED <<capVars, tries, place, tool, held, pipe, kube, sessionVars, worldVars>>

\* A new stream for the pipe, and a new configuration for kubectl.
BeginScript(s) ==
  /\ \/ at[s] = "loaded" /\ content[s] # 0
     \/ at[s] = "idle" /\ runState[s] = "resetting" /\ content[s] # 0
  /\ Goto(s, "command")
  /\ place' = [place EXCEPT ![s] = <<1, 1>>]
  /\ pipe' = [pipe EXCEPT ![s] = 0] /\ kube' = [kube EXCEPT ![s] = FALSE]
  /\ Live
  /\ UNCHANGED <<capVars, cache, tries, content, tool, held, sessionVars, worldVars>>

DriverTools == {"trcpub", "trcconfig", "trcplgtool", "kubectl"}
AgentTools  == {"trcconfig", "trcplgtool", "trcsub"}
Role(t) == CASE t = "trcpub" -> "pub" [] t = "trcplgtool" /\ ~agent -> "ctoken" [] OTHER -> "config"

\* trcpub starts with a reset.  The agent configuration the driver needs for
\* its first trcplgtool takes a modifier and releases none; in production the
\* tool is refused, and kubectl exits the shell after 15 seconds.
PickTool(s) ==
  /\ at[s] = "command"
  /\ \E t \in IF s = Main THEN DriverTools ELSE AgentTools :
     \/ /\ Goto(s, "use") /\ tool' = [tool EXCEPT ![s] = t]
        /\ cache' = IF t = "trcpub" THEN ResetModifier(cache) ELSE cache
        /\ UNCHANGED shellVars
     \/ s = Main /\ t \in {"trcplgtool", "kubectl"} /\ Exit /\ UNCHANGED <<at, tool, cache>>
  /\ UNCHANGED <<capVars, tries, content, place, held, pipe, kube, sessionVars, worldVars>>

\* The driver's first trcplgtool: NewAgentConfig with the elevated token.
DriverAgentConfig ==
  /\ at[Main] = "use" /\ tool[Main] = "trcplgtool" /\ ~agentSet /\ held[Main] = NoToken
  /\ \/ /\ \A k \in Feathers : \E a \in PenseFeatherQuery(k) : Accepted(a)
        /\ agentSet' = TRUE /\ UNCHANGED <<agent, alive, config, phase>>
        /\ held' = [held EXCEPT ![Main] = <<"ctoken", NewModifier("ctoken")>>]
        /\ cache' = Taken
     \/ Exit /\ UNCHANGED <<held, cache>>
  /\ UNCHANGED <<capVars, shell, content, place, tool, pipe, kube, sessionVars, worldVars>>

\* The tools, as the shell sees them: the role logs in, the tool takes a modifier
\* for its token, and its work may fail in every way.  trcpub and trcsub release
\* theirs at the end, trcconfig does not; trcplgtool takes none from the cache.
With(s, t, token) ==
  /\ at[s] = "use" /\ tool[s] = t
  /\ held' = [held EXCEPT ![s] = <<Role(t), token>>] /\ Goto(s, "used")
  /\ UNCHANGED <<capVars, shellVars, tries, content, place, tool, pipe, kube, sessionVars, worldVars>>
TrcPub(s)     == With(s, "trcpub", NewModifier("pub")) /\ cache' = Taken
TrcSub(s)     == With(s, "trcsub", NewModifier("config")) /\ cache' = Taken
TrcConfig(s)  == With(s, "trcconfig", NewModifier("config")) /\ cache' = Taken
TrcPlgTool(s) == agentSet /\ With(s, "trcplgtool", Role("trcplgtool")) /\ UNCHANGED cache

\* Once for a script.  A kubeconfig that cannot be decoded is used as it is.
InitTrcKubeConfig ==
  /\ at[Main] = "use" /\ tool[Main] = "kubectl" /\ ~kube[Main]
  /\ kube' = [kube EXCEPT ![Main] = TRUE]
  /\ Live
  /\ UNCHANGED <<capVars, cache, shell, content, place, tool, held, pipe, sessionVars, worldVars>>

\* kubectl: the first of a pipeline writes to the pipe, one that finds it
\* written reads it.
KubeCtl ==
  /\ at[Main] = "use" /\ tool[Main] = "kubectl" /\ kube[Main]
  /\ \/ pipe[Main] = 0 /\ pipe' \in {pipe, [pipe EXCEPT ![Main] = place[Main][1]]}
        /\ Goto(Main, "sent") /\ Live
     \/ pipe[Main] # 0 /\ UNCHANGED pipe /\ Goto(Main, "sent") /\ Live
     \/ Exit /\ UNCHANGED <<at, pipe>>
  /\ UNCHANGED <<capVars, cache, tries, content, place, tool, held, kube, sessionVars, worldVars>>

Releases(t) == t \in {"trcpub", "trcsub"}
AfterTool(s) ==
  ResetModifier(IF Releases(tool[s]) THEN Released(cache, held[s][2]) ELSE cache)

\* roleBasedRunner and trcpub end with a reset.  An agent that fails reports it
\* in a goroutine, with the error and a COMPLETE, drops the script and waits for
\* the next session, or exits when it was forbidden; the driver exits.
EndTool(s) ==
  /\ at[s] = "used"
  /\ cache' = AfterTool(s) /\ held' = [held EXCEPT ![s] = NoToken]
  /\ \/ Goto(s, "sent") /\ Live /\ UNCHANGED <<content, runState, pending>>
     \/ Exit /\ UNCHANGED <<at, content, runState, pending>>
     \/ /\ s # Main /\ pending[s] + 2 <= MaxPending
        /\ Goto(s, "idle") /\ content' = [content EXCEPT ![s] = 0]
        /\ runState' = [runState EXCEPT ![s] = "started"]
        /\ pending' = [pending EXCEPT ![s] = @ + 2]
        /\ Live
  /\ UNCHANGED <<capVars, tries, place, tool, pipe, kube, messages, worldVars>>

\* Mutant of Room: the channel is not waited for.
NoRoom(s) == TRUE
Room(s) == messages[s] < MessageRoom

\* The agent sends the command's line, which waits while the channel is full.
\* Then the next command of the pipeline, the next pipeline with a new stream,
\* or the end of the script.
\* Mutant of NewStream: the stream of the last pipeline is kept.
KeepStream(s) == UNCHANGED pipe
NewStream(s) == pipe' = [pipe EXCEPT ![s] = 0]
NextCommand(s) ==
  /\ at[s] = "sent"
  /\ s # Main => Room(s)
  /\ messages' = [messages EXCEPT ![s] = IF s = Main THEN 0 ELSE @ + 1]
  /\ LET p == place[s][1]  c == place[s][2] IN
     \/ /\ c < Commands /\ place' = [place EXCEPT ![s] = <<p, c + 1>>]
        /\ Goto(s, "command") /\ UNCHANGED pipe
     \/ /\ p < Pipelines /\ place' = [place EXCEPT ![s] = <<p + 1, 1>>]
        /\ Goto(s, "command") /\ NewStream(s)
     \/ Goto(s, IF s = Main THEN "finished" ELSE "complete") /\ UNCHANGED <<place, pipe>>
  /\ Live
  /\ UNCHANGED <<capVars, cache, tries, content, tool, held, kube, runState, pending, worldVars>>

\* While the session runs, a COMPLETE is sent every second, each by a goroutine
\* of its own.
SendComplete(s) ==
  /\ at[s] = "complete" /\ runState[s] = "running" /\ pending[s] < MaxPending
  /\ pending' = [pending EXCEPT ![s] = @ + 1]
  /\ Live
  /\ UNCHANGED <<capVars, cache, shell, scriptVars, runState, messages, worldVars>>

\* The script is dropped, and the goroutine waits for the next session.
\* Mutant of Drop: the script is kept for the next session.
Keep(s) == UNCHANGED content
Drop(s) == content' = [content EXCEPT ![s] = 0]
ReRun(s) ==
  /\ at[s] = "complete" /\ runState[s] # "running"
  /\ Drop(s) /\ Goto(s, "idle") /\ Live
  /\ UNCHANGED <<capVars, cache, tries, place, tool, held, pipe, kube, sessionVars, worldVars>>

Deliver(s) ==
  /\ pending[s] > 0 /\ Room(s)
  /\ pending' = [pending EXCEPT ![s] = @ - 1]
  /\ messages' = [messages EXCEPT ![s] = @ + 1]
  /\ Live
  /\ UNCHANGED <<capVars, cache, shell, scriptVars, runState, worldVars>>

-----------------------------------------------------------------------------
(* Outside the shell: a controller, and the template of the script. *)

\* A controller asks for a session.
Request(s) ==
  /\ s # Main /\ at[s] # "none" /\ runState[s] = "started" /\ requests[s] < Requests
  /\ runState' = [runState EXCEPT ![s] = "resetting"]
  /\ requests' = [requests EXCEPT ![s] = @ + 1]
  /\ wanted' = [wanted EXCEPT ![s] = IF at[s] = "idle" THEN script ELSE @]
  /\ Live
  /\ UNCHANGED <<capVars, cache, shell, scriptVars, messages, pending, script>>

\* The session runs from its first message on, and is over after some message.
Controller(s) ==
  /\ messages[s] > 0 /\ runState[s] # "started"
  /\ messages' = [messages EXCEPT ![s] = @ - 1]
  /\ runState' \in {[runState EXCEPT ![s] = "running"], [runState EXCEPT ![s] = "started"]}
  /\ Live
  /\ UNCHANGED <<capVars, cache, shell, scriptVars, pending, worldVars>>

Publish ==
  /\ script < MaxVersion /\ script' = script + 1
  /\ Live
  /\ UNCHANGED <<capVars, cache, shell, scriptVars, sessionVars, wanted, requests>>

Hat == CapNext /\ UNCHANGED <<cache, shellVars, shell, scriptVars, sessionVars, worldVars>>

ShellStep(s) ==
  \/ EnableDeployer(s) \/ TrcshVAddress(s) \/ Authenticate(s) \/ TrcshAuth(s) \/ Preload(s)
  \/ LoadPluginDeploymentScript(s) \/ BeginScript(s) \/ PickTool(s)
  \/ TrcPub(s) \/ TrcSub(s) \/ TrcConfig(s) \/ TrcPlgTool(s)
  \/ EndTool(s) \/ NextCommand(s) \/ SendComplete(s) \/ ReRun(s) \/ Deliver(s)
  \/ Request(s) \/ Controller(s)

Next ==
  \/ alive /\ \/ CommonMain \/ NewAgentConfig \/ AgentSecrets \/ GetDeployers
              \/ DriverAgentConfig \/ InitTrcKubeConfig \/ KubeCtl \/ Publish
              \/ \E s \in Shells : ShellStep(s)
  \/ Hat

Spec == Init /\ [][Next]_vars

-----------------------------------------------------------------------------
(* Properties. *)

\* Types of the shell and of the hat.
TypeOK ==
  /\ CapTypeOK
  /\ config \in [Keys -> Answers \cup {"nil"}] /\ phase \in 0..Len(Phases)
  /\ cache \in Seq({"pub", "config", "ctoken"}) /\ Len(cache) <= CacheRoom
  /\ content \in [Shells -> 0..MaxVersion] /\ pipe \in [Shells -> 0..Pipelines]
  /\ \A s \in Shells : /\ messages[s] \in 0..MessageRoom /\ pending[s] \in 0..MaxPending
                       /\ tries[s] \in 0..Queries - 1
                       /\ place[s] \in (1..Pipelines) \X (1..Commands)

\* A session that was asked for while the goroutine waited runs the script vault
\* held then, or a later one, never the script of the session before; and a command of a
\* pipeline reads the output of its own pipeline (content = nil and
\* MemFs.Create in ProcessDeploy).
FreshInput ==
  \A s \in Shells :
     at[s] \in Running => content[s] >= wanted[s] /\ pipe[s] \in {0, place[s][1]}

\* No command runs before the shell has all its secrets, and an agent never
\* holds the placeholder of a key the hat has not memorized yet (IsValid,
\* RetryingPenseFeatherQuery).
SecretsFirst ==
  /\ \A s \in Shells : at[s] \in Running => IsValid
  /\ agent => \A k \in Keys : config[k] # "dots"

\* A tool's calls to vault carry the token of its own role, never that of the
\* tool before it, although the cache gives modifiers out whatever their token
\* ("Resetting modifier cache to avoid token conflicts", trcsh.go).
OwnToken == \A s \in Shells : held[s][1] = held[s][2]
=============================================================================
