---------------------------- MODULE TrcdbBackend ---------------------------
(***************************************************************************)
(* The backend of the trcdb plugin, over FlowStartup.  Vault keeps one     *)
(* entry for an environment, with its tokens and addresses; a request      *)
(* writes or reads the entry and then pushes it into tokenEnvChan, in two  *)
(* steps.  One loop takes what was pushed and starts the flows of the      *)
(* environment with it, every time.  The plugin is headless (its main says *)
(* so), hence configCompleteChan is nil and a send to it never returns.    *)
(*                                                                         *)
(* vaultHost and vaultPort are not modelled: the requests are about the    *)
(* vault the plugin lives in.  An entry is known by a name; BadEntry stands*)
(* for one with an empty field, which the loop refuses.                    *)
(***************************************************************************)
EXTENDS FlowStartup, Sequences

CONSTANTS
  Clients,      \* requests at one time
  Mount,        \* the thread that calls TrcInitialize
  Entries,      \* what a request may write
  BadEntry,     \* the one with an empty field
  NoEntry,      \* nothing stored
  EnvOrder,     \* environments, in the order TrcInitialize goes through them
  QueueLength,  \* of tokenEnvChan (5)
  MaxPushes     \* bound: configurations pushed

ASSUME BackendAssumption ==
  /\ Mount \notin Clients /\ BadEntry \in Entries /\ NoEntry \notin Entries
  /\ EnvOrder \in Seq(Envs) /\ QueueLength \in Nat \ {0} /\ MaxPushes \in Nat

VARIABLES
  boot,       \* initVaultHostBootstrap, and Init waiting for it
  stored,     \* vault's entry for each environment
  queue,      \* tokenEnvChan
  taken,      \* environmentConfigs: what the loop took last for an environment
  loop,       \* the loop: does it wait for a configuration, or for ever?
  client,     \* where each request is, and what it has in its hand
  toInit,     \* the environments TrcInitialize has still to go through
  pushes,     \* configurations pushed or about to be
  raced       \* history: environments whose last request met another

requestVars == <<stored, client, toInit, pushes, raced>>
loopVars    == <<queue, taken, loop>>
backendVars == <<startupVars, boot, requestVars, loopVars>>

Threads  == Clients \cup {Mount}
Resting  == [at |-> "idle", env |-> NoEnv, entry |-> NoEntry]
Pushing(e, t) == [at |-> "push", env |-> e, entry |-> t]

BackendInit ==
  /\ StartupInit
  /\ boot = "lookup"
  /\ stored \in [Envs -> Entries \cup {NoEntry}]
  /\ queue = <<>> /\ taken = [e \in Envs |-> NoEntry] /\ loop = "boot"
  /\ client = [c \in Threads |-> Resting]
  /\ toInit = EnvOrder /\ pushes = 0 /\ raced = {}

-----------------------------------------------------------------------------
\* When vault is not found, nobody sends what Init waits for: it never ends.
FindVault ==
  /\ boot = "lookup"
  /\ \/ boot' = "served" /\ loop' = "wait"
     \/ boot' = "lost" /\ UNCHANGED loop
  /\ UNCHANGED <<startupVars, requestVars, queue, taken>>

Busy(e)    == \E c \in Threads : client[c].at = "push" /\ client[c].env = e
Meets(e)   == raced' = IF Busy(e) THEN raced \cup {e} ELSE raced \ {e}
Starts(c)  == boot = "served" /\ client[c].at = "idle" /\ pushes < MaxPushes
Holds(c, e, t) ==
  client' = [client EXCEPT ![c] = Pushing(e, t)] /\ pushes' = pushes + 1

\* TrcInitialize goes through the environments, and waits at every push.
TrcInitialize ==
  /\ Starts(Mount) /\ toInit # <<>>
  /\ toInit' = Tail(toInit)
  /\ LET e == Head(toInit) IN
       \/ stored[e] # NoEntry /\ Holds(Mount, e, stored[e]) /\ Meets(e)
       \/ UNCHANGED <<client, pushes, raced>>      \* missing, or not read
  /\ UNCHANGED <<startupVars, boot, stored, loopVars>>

TrcCreate(c, e, t) ==
  /\ Starts(c) /\ Holds(c, e, t) /\ Meets(e)
  /\ stored' = [stored EXCEPT ![e] = t]
  /\ UNCHANGED <<startupVars, boot, toInit, loopVars>>

\* Once the plugin's certification record is found with a sha256: without one
\* the request is answered with an error and changes nothing, and so does an
\* update that names no plugin.  After the push it waits seven seconds for
\* pluginSettingsChan, into which nobody sends, and then answers.
TrcUpdate(c, e, t) == stored[e] # NoEntry /\ TrcCreate(c, e, t)

\* A read starts the flows as well.
TrcRead(c, e) ==
  /\ Starts(c) /\ stored[e] # NoEntry
  /\ Holds(c, e, stored[e]) /\ Meets(e)
  /\ UNCHANGED <<startupVars, boot, stored, toInit, loopVars>>

PushEnv(c) ==
  /\ client[c].at = "push" /\ Len(queue) < QueueLength
  /\ queue' = Append(queue, [env |-> client[c].env, entry |-> client[c].entry])
  /\ client' = [client EXCEPT ![c] = Resting]
  /\ UNCHANGED <<startupVars, boot, stored, toInit, pushes, raced, taken, loop>>

\* What ProcessPluginEnvConfig does not accept.
Refuses(entry) == entry = BadEntry

\* Mutant of Take: the newest configuration first.
TakeNewest ==
  /\ loop = "wait" /\ queue # <<>>
  /\ LET pec == queue[Len(queue)] IN
       /\ taken' = [taken EXCEPT ![pec.env] = pec.entry]
       /\ loop' = IF Refuses(pec.entry) THEN "stuck" ELSE "wait"
       /\ IF Refuses(pec.entry) THEN UNCHANGED startupVars
          ELSE \E r \in Runs : Begin(r, pec.env)
       /\ queue' = SubSeq(queue, 1, Len(queue) - 1)
  /\ UNCHANGED <<boot, requestVars>>
Take ==
  /\ loop = "wait" /\ queue # <<>>
  /\ LET pec == Head(queue) IN
       /\ taken' = [taken EXCEPT ![pec.env] = pec.entry]
       /\ \/ /\ Refuses(pec.entry)
             /\ loop' = "stuck"         \* configCompleteChan <- true
             /\ UNCHANGED startupVars
          \/ /\ ~Refuses(pec.entry)
             /\ \E r \in Runs : Begin(r, pec.env)
             /\ UNCHANGED loop
       /\ queue' = Tail(queue)
  /\ UNCHANGED <<boot, requestVars>>

Flowing(r) == RunNext(r) /\ UNCHANGED <<boot, requestVars, loopVars>>

BackendNext ==
  \/ FindVault \/ TrcInitialize \/ Take
  \/ \E c \in Clients, e \in Envs : 
       TrcRead(c, e) \/ \E t \in Entries : TrcCreate(c, e, t) \/ TrcUpdate(c, e, t)
  \/ \E c \in Threads : PushEnv(c)
  \/ \E r \in Runs : Flowing(r)

\* Requests come or do not, but goroutines that can go on do.
BackendFairness ==
  \A r \in Runs :
    /\ WF_backendVars(StartupStep(r) /\ UNCHANGED <<boot, requestVars, loopVars>>)
    /\ WF_backendVars(ControllerStep(r) /\ UNCHANGED <<boot, requestVars, loopVars>>)
    /\ WF_backendVars(ReadPermission(r) /\ UNCHANGED <<boot, requestVars, loopVars>>)
    /\ \A f \in Flows :
         WF_backendVars(FlowStep(r, f) /\ UNCHANGED <<boot, requestVars, loopVars>>)

-----------------------------------------------------------------------------
\* Every variable of the backend and of the start-up keeps its type.
BackendTypeOK ==
  /\ StartupTypeOK
  /\ boot \in {"lookup", "served", "lost"} /\ loop \in {"boot", "wait", "stuck"}
  /\ stored \in [Envs -> Entries \cup {NoEntry}]
  /\ taken \in [Envs -> Entries \cup {NoEntry}]
  /\ queue \in Seq([env : Envs, entry : Entries]) /\ Len(queue) <= QueueLength
  /\ client \in [Threads -> [at : {"idle", "push"}, env : Envs \cup {NoEnv},
                             entry : Entries \cup {NoEntry}]]
  /\ toInit \in Seq(Envs) /\ pushes \in 0 .. MaxPushes /\ raced \subseteq Envs

\* A flow runs only when the controller has its connections, has loaded the
\* table and has sent the states, and an interface opens only after the flows
\* have been started (process.go:345-364, 469-472): three signals of another
\* goroutine, in this order.
StatesFirst ==
  \A r \in Runs :
    /\ (\E f \in Flows : flow[r][f] # "none") =>
         initWG[r] = 0 /\ controller[r] = "checking" /\ ~alert[r]
    /\ (\E d \in Doors : face[r][d] # "closed") =>
         configWG[r] = Nil /\ \A f \in Flows : flow[r][f] # "none"

\* When no request is on its way and none is left in the queue, the flows of an
\* environment were last started with the entry vault has for it
\* (backend.go:468-478: stored, then pushed; tokenEnvChan keeps the order).
\* Requests that meet may be stored in one order and pushed in the other; the
\* first request that then comes alone settles it.
LatestStored ==
  \A e \in Envs :
    queue = <<>> /\ ~Busy(e) /\ e \notin raced /\ taken[e] # NoEntry =>
      taken[e] = stored[e]

\* A start-up comes to an end: the interface serves, or ProcessFlows returned,
\* or the controller ended before it gave its signal (process.go:328, and an
\* interval of zero), for which ProcessFlows waits for ever.
StartEnds ==
  \A r \in Runs :
    main[r] # "idle" ~>
      \/ main[r] \in {"serving", "error", "nothing"}
      \/ controller[r] = "ended" /\ main[r] \in {"connections", "alert"}

\* A flow that has loaded its table gets past its permission message, unless no
\* interface reads it: it was refused, or its privileges failed
\* (harbingeropts.go:252-275), or ProcessFlows ended.
PermitsPass ==
  \A r \in Runs, f \in Flows :
    flow[r][f] = "permit" ~>
      flow[r][f] = "running" \/ main[r] = "error" \/ face[r]["db"] = "unread"
=============================================================================
