# Tierceron: a verification project

Tierceron manages the configuration and secrets of many environments in
HashiCorp vault.  Command line tools read templates and write vault, side by side
and with many goroutines of their own; *flow machines* in a vault plugin keep an
in-memory SQL database and vault in step; a *carrier* deploys other plugins and
remembers the secrets that *trcsh*, the deployment shell, asks it for.  This
directory models those parts in TLA+, checks the models with TLC and proves their
safety properties, and one refinement, with TLAPS.

Paths below are relative to the repository's root.  `PROJECT.json` maps each
definition to the lines it models and lists runs, mutants, hazards, findings and
theorems.

## Running it

    tlc -workers 2 -config FlowSyncSafety.cfg MCFlowSync   # any .cfg, with its module
    tlapm FlowSyncProofs.tla                               # any *Proofs module

## Inventory

| Component | State | Operations | Models |
|---|---|---|---|
| Change capture and write-behind (`atrium/trcflow/core/context.go`, `context_helper.go`, `atrium/trcdb/db.go`) | engine tables, change tables, notification channels, `changesLock`, triggers, vault, a remote database | load a table, run a statement, record and announce a change, drain, persist, push, cancel | `FlowSync`; its promise is `WriteBehind` |
| Flow controller (`.../flumen/process_tierceronflow.go`, `.../flows/process_dataflowstatistics.go`, `buildopts/coreopts`) | the TierceronFlow row, two channels, `FlowState`, `previousState`, `Init`, the timed refresh | send rows, listen, refuse, take on, tick, stop, restart, refresh, pull | `FlowControl` |
| Flow start-up (`.../flumen/process.go`, `harbingeropts.go`) | two wait groups, an alert, the permission channel, the ports of the interfaces | `ProcessFlows`, the controller flow, `BuildInterface` | `FlowStartup` |
| Trcdb plugin backend (`.../trcdb/factory/backend.go`) | an entry per environment, a queue, what waits for the vault host | `TrcInitialize`, `TrcCreate`, `TrcUpdate`, `TrcRead`, the loop of `Init` | `TrcdbBackend` over `FlowStartup` |
| Data flow statistics (`atrium/trcflow/core/dataFlowStatistics.go`) | a tree per start, a table, its change table, vault | begin, update, finish; fill from vault | `DataFlowStatistics` |
| Ask Flume, chat proxy (`atrium/trcflow/core/askflume`, `.../trcchatproxy`) | one shared context, four channels, `FlowCase`; events | post, ask DialogFlow, gather, answer | `AskFlume` over `DataFlowStatistics` |
| Carrier backend, deployment (`.../carrierfactory/backend.go`, `.../trcflow/deploy/process.go`) and plugin tool | Certify records, the plugin directory, the sha256 channel of a request | `TrcUpdate`, `TrcInitialize`, `PluginDeployFlow`, certify | `PluginDeploy` |
| Cap agent and hat (`pkg/capauth`, `.../servercapauth`) | what is memorized, the server, the tap | validate, register, memorize, serve, ask, retry | `CapAuth` |
| Trcsh, its authentication and kubectl (`.../trcshbase`, `.../trcshauth`, `.../kube/native`, `.../deployutil`) | shared secrets and agent configuration; script, pipe and session of each goroutine | authenticate, load a script, run tools, complete, run again | `Trcsh` over `CapAuth` and `ModifierCache` |
| Vault access (`pkg/vaulthelper`) | cached modifiers; versions of buckets; tokens, approles | take, release, prune; read, write, retry | `ModifierCache`, `VaultKV`, `Rotation` |
| Template tools (`trcpub`, `trcx`, `trcinit`, `trcconfig`) | seed files, one result channel for all generators, the file being seeded, a slice of configurations | publish, generate, seed, verify, render, compare | `TrcX`, `TrcInit`, `TrcConfig`, composed in `ToolChain` |
| Tokens and approles (`trcinit -new`, `-initns`, `-rotateTokens`, the web API's `InitVault`) | tokens alive, stored, policies | make, revoke, store | `Rotation` |
| Utilities, web API, commands, installers | none that lasts | formatting, I/O, forwarding | see *Not modelled* |

How they interact:

* A writer (another flow, an SQL session, the interface) changes a row in the
  engine.  Either a trigger or the caller leaves the row's id in the change
  table; the caller then *Bcasts* on the flow's channel.  The flow's sync cycle
  wakes, takes `changesLock`, empties the change table, and stores every row in
  vault and in the remote database.
* The controller flow is a flow whose rows are other flows' states.  It sends
  each row to its flow, one goroutine per row; the flow answers by an update of
  its row, which the controller again sends.
* A request to the trcdb backend stores an environment's entry and then pushes it
  into a queue; one loop takes what was pushed and calls `ProcessFlows` with it,
  which follows the controller's goroutine by two wait groups and an alert.
* A flow that starts reports itself as a statistic; users ask for statistics in a
  chat, through a proxy and four channels in the process of the flows.
* deploy scripts call the carrier's `TrcUpdate`, which queues a request and
  blocks on a channel until a deployment goroutine sends the sha256.  Deployments
  of all environments share one plugin directory; the plugin tool and the
  deployments write the same Certify records.
* The carrier starts the hat, which memorizes secrets one at a time; trcsh asks it
  over the network or over the tap, may get a placeholder, and asks again.  The
  tools it then runs share one cache of vault clients.
* Two command line tools on one vault see each other's writes, call by call.

What is hard: a change made while its row is being persisted; notifications taken
by the wrong `Clear`; loads that overlap; states that arrive late, out of order or
twice; starts that wait for a goroutine that has ended; rows filled from vault over
newer ones; an unlocked context passed around by four channels; files half written
when a process dies; clients that wait for an answer nobody will send; one result
channel for many generators; tokens revoked before their successors are stored.
`PROJECT.json`, "hazards", has each at its line, with the properties aimed at it
or the reason there is none.

What makes each component correct:

* *Write-behind*: a change is lost with a logged error, or at one of two places that log
  nothing, and nowhere else; the remote lags only by what is on its way; removals
  exclude each other; triggers come back; a notified or cancelled cycle drains; a quiet
  flow converges.
* *Controller*: states rotate, whatever arrives; the listener's view is the
  flow's; shutting down and starting complete while permissions are read.
* *Start-up and backend*: flows start after the controller's signals, with the entry
  vault has once a request came alone; starts end and permissions pass, or the code
  has given up.
* *Statistics and questions*: what was reported gets to vault; one goroutine at a
  time has the context; questions are answered.
* *Deployment*: only certified sha256s are recorded; clients get a current one
  and get an answer; a file in place is explained; a torn file is repaired.
* *Trcsh*: each session runs its own script and pipe, with all secrets, and each
  tool has the token of its role.
* *Tools*: each target's data stays its own; seeds are whole; no placeholder becomes
  a secret; a rotation that ends anywhere leaves nothing worse for the next.

## Modules

    FlowSync ........ refines WriteBehind (MCFlowSync)      FlowSyncProofs
    FlowControl ..... MCFlowControl                         FlowControlProofs
    PluginDeploy                                            PluginDeployProofs
    FlowStartup <- TrcdbBackend --+                         TrcdbBackendProofs
    DataFlowStatistics <- AskFlume +- MCTrcdbBackend        AskFlumeProofs (extends it)
    CapAuth, ModifierCache <- Trcsh - MCTrcsh               TrcshProofs
    VaultKV <- TrcX <- TrcInit --+
    VaultKV <- TrcConfig ---------+- ToolChain --+          ToolChainProofs
    Rotation ------------------------------------+- MCToolChain   RotationProofs

Two MC modules hold several *sessions*: behaviours that start differently, or go within
different bounds, so that one run asks the questions of each and their sizes add up.  The
specification of such a module is the one its theorems are about: what bounds a session is a
constant like any other, and the values are in the module's .cfg.

## FlowSync: the write-behind loop

A sync cycle `<<f, i>>` is the i-th call of `SyncTableCycle` for flow `f` since
the plugin came up.

| Code | Model |
|---|---|
| `SyncTableCycle`, `seedTrcDbCycle`, `seedTrcDbFromVault` | `SyncTableCycle`, `ReadVault`, `InsertRows` |
| the `select` of `seedVaultCycle` | `Notified`, `Done`, `Kicked`, `Shutdown` |
| `removeChangedTableEntries` and its composite and statistic forms, under `changesLock` | `Acquire`, `Scan`, `Drain`, `Drained`, `RemoveFails` |
| `vaultPersistPushRemoteChanges` | `ReadEntry` to `SoftDeleteFails`, `Finish`, `Clear` |
| `CallDBQuery`, an SQL session's statement, `QueryCompleted` | `CallDBQuery`, `RecordChange`, `SqlStatement`, `Notify`, `TriggerAllChangeChannel` |
| the controller's `CancelContext`, the truncate of a restart | `Cancel`, `Truncate` |

Which calls may fail is the constant `Errors`; a call that fails does what the
code does (log and go on, give the entry up, panic).  Three variables are history:
`excused` has the rows whose change the code gave up, `dropped` those of them it gave
up without a word in the log, `unpushed` those it did not get to the remote.  `Drop`
is where both of the former grow: `NoTenant`, a path that is empty without an error
(`context_helper.go` 379-381), and an `SqlStatement` for which no trigger fires.
Every other loss is logged (`Logged`).  `InsertRows` takes it that the two sends on its
way, to `vaultImportChannel` and `PermissionChan`, find room or a reader; the limit of
`PermissionChan` is in `FlowControl` and `FlowStartup`.  `Bcast` sets the
number of receptions to a constant, because the channel helper's value lets a
fixed number of receivers see one notification.  `Overlap` allows a cycle to
start while an earlier one runs; the code has nothing against it, but the flows'
loops usually prevent it.

What the model shows of the code that a reader would not expect: the restart flag
of a flow (`context.go` 453-463) is never set; in a three-column change table a row
without a path cannot be re-injected, since `GetDataflowStatIndexedPathExt` returns an
empty path with its error.

| Run | Bounds | States | Shows |
|---|---|---|---|
| FlowSyncSafety | 1 flow, 1 key, 2 values, 2 cycles, every error | 890,000 | `TypeOK`, `LossIsNamed`, `RemoteFollowsVault`, the invariant `CopiesAgree`, and `ImplementsWriteBehind` |
| FlowSyncOverlap | 3 key columns, overlapping cycles, every error | 2.43 M | `RemovalIsExclusive`, `TriggersComeBack` |
| FlowSyncLive | no errors, no overlap, fair | 29,000 | `NotifiedIsDrained`, `CancelFlushes`, `CancelCloses`, `Converges` |
| FlowSyncReinject | path errors | violation | `NothingGivenUp` |

`WriteBehind` is what the loop promises to whoever changes a row: a table, a store
behind it, rows the loop *owes* the store, rows it has *given* up, and among these
the ones it gave up in silence.  `FlowSync` maps `volatile` to the table, `durable` to
vault, `owed` to the ids the machinery accounts for (`Accounted`: in the change table,
in a batch, in hand), `given` to `excused` and `silent` to `dropped`.  Every step of
`FlowSync` without `Overlap` is a step of `WriteBehind` or a stutter: a debt disappears
by paying, by a failure that is logged, by one of the two drops that are not, with the
table that is emptied, or with the process, and no other way.

`LossIsNamed` is therefore not "every loss is in the log", which the code does not keep:
that is `NoSilentLoss`, and it holds where every row has a tenant and every trigger fires.

Why the bounds are enough: the properties speak of one row of one flow, and two
rows interact only by sharing the batch and the change table.  A second value
tells a stale copy from a fresh one.  A second cycle is the first that can follow
or overlap another one.  With two keys the first five million states of FlowSyncSafety
were searched too, and no more.  The proofs remove the bounds for the safety properties.

Fairness: goroutines run (weak); Go's `select` is random among ready cases, and
`sync.Mutex` in starvation mode serves every waiter (strong).  Nothing is assumed
of signals, users or the controller; `Converges` therefore assumes in its
formula that writers stop and that notifications keep arriving.

Proved (`FlowSyncProofs`), for any flows, keys, values, writers, errors, cycles:

* `TypeCorrect`, `RemovalExclusive`, `TriggersRestored`, with no assumption.  The
  inductive invariant is `Shape`: the type, where ids may be in hand (`HandOK`),
  what batches contain (`BatchOK`), who holds dropped triggers (`LoadOK`), and
  the exclusion itself.
* `NoChangeLost` (`LossIsNamed`), `RemoteNeverLags`, `CopiesAgreeAlways`, assuming
  `~Overlap`.  Here a snapshot, a batch or an entry in hand is a *copy* of a row, and
  `LossIsNamed` says nothing about copies; `CopiesAgree` adds that every copy agrees
  with its source or is known to be out of date (`SnapOK`, `HeldIsFresh`, `PushOK`).
  Without `~Overlap` two cycles may store the same row in the wrong order.
* `LossIsLogged`: `Spec => []NoSilentLoss`, assuming further that no path lacks its tenant
  (`"tenant" \notin Errors`) and no trigger fails to fire (`FALSE \notin TriggerOutcomes`).
  Under these nothing is ever dropped.
* `WriteBehindImplemented`, assuming `~Overlap`: `Spec => ImplementsWriteBehind`.  Each
  step of a cycle maps to a step of `WriteBehind` that stores one row, settles a debt
  with a log entry, drops one without, or changes nothing the promise speaks of
  (`StoringStep`, `LoggedStep`, `DroppingStep`, `SilentStep`, each stated of the state
  before and after it and used for every action of its kind); writers, restarts and
  panics have a lemma of their own.  The step simulation needs `CopiesAgree`, that the
  row a cycle stores is the row the table has unless the id is a change again, and of
  `HandOK` two facts that nothing else needs: a row to be stored is a row, and a
  deletion is in hand only of a flow that propagates deletions.
* `PromiseLosesNothing`: `WriteBehind` itself keeps `NothingLost`, for any volatile and
  durable tables: a row the store lacks is owed or given up.  With the refinement this says
  what `LossIsNamed` means without batches and change tables.

## FlowControl: starting, stopping and refreshing a flow

| Code | Model |
|---|---|
| a user's SQL on TierceronFlow; `sendUpdates` and its goroutines; the receivers | `Edit`; `SendUpdates`, `Deliver`; `ApplyUpdate` |
| the listener goroutine (`process_dataflowstatistics.go` 199-224) | `Hear`, `Refuse`, `TakeOn` |
| `AddTableSchema` and the wait after it | `FirstState`, `SecondState` |
| the loop (231-299) | `Tick`, `Stop`, `Offline`, `RestartTable`, `Send`, `Run`, `Refresh`, `Pull`, ... |
| `KickOffTimedRefresh` (306-340) | `KickOff`, `EndRefresh`, `Sleep`, `Midnight`, `Fire`, `EndReceived` |
| `SyncTableCycle`, as far as it touches `FlowState` and `Init` | `Begin`, `ResetMode`, `SendComplete`, `Loaded`, `Ready`, `SendPermission` |
| `PermissionChan`: the other flows that send to it, the goroutine of `BuildInterface` that reads it | `Permit`, `OtherFlow`, `ReadPermission` |

Only `DataFlowStatistics` has the whole loop in this repository; other flows are
supplied from outside.  `flowAlias` and `SyncFilter` are left out: the listener uses
them only to tell a repeated message from a new one, so an edit of an alias alone
is not among the edits of the model.

`PermissionChan` is one channel of ten messages for all flows, read by a goroutine that
an interface starts once it is up.  The flow sends to it in three places, and waits
there while it is full: the loop when it stops (`process_dataflowstatistics.go` 238,
`Stop`), a load that made the table (155, *with* `FlowLock` held: a cycle that is
`"seized"`), and the cycle after a load that gave up early (`context.go` 639, without
the lock: `"permit"`).  A load that is seized keeps the listener from storing a state
and the loop from its tick.

| Run | Bounds | States | Shows |
|---|---|---|---|
| FlowControlRotate | 1 sender, 1 timed refresh, 1 edit, 1 night, 1 cycle, `PermissionChan` of 1 | 13.2 M | `TypeOK`, `InStep`, `StatesRotate` |
| FlowControlLive | 2 edits, no refreshes, 1 cycle, `PermissionChan` of 1, fair | 281,000 | `ShutdownCompletes`, `StartupCompletes` |

Both runs turn TLC's deadlock check off because the code may hang: `refreshEnd`, twice,
puts a second value into `endRefreshChan` under `FlowLock`, and the listener waits for
that lock; and while nothing reads `PermissionChan`, whoever sends to it may wait for
ever.  The liveness run leaves refreshes out for the first reason.  For the second its
two properties assume `Drained`, that `PermissionChan` has room again and again, as it
does once an interface is up: `Drained` is part of the formula and no fairness, since
`BuildInterface` may fail, and nothing then reads the channel.  Without it neither
property would hold.  One edit is enough to make a refused message, because the flow's
own updates are in flight beside it.

A `PermissionChan` of one is full as soon as anybody has sent, which is when the limit
matters.

Fairness: a goroutine that waits on a channel or on `FlowLock` is served (strong),
the controller reads its rows at every interval (weak); users, the clock, the other
flows and the reader of `PermissionChan` owe nothing.

Proved (`FlowControlProofs`), for any number of goroutines, states, edits and
nights: `TypeCorrect`, `InStepAlways`, `RotateAlways`.  `StatesRotate` is about
`flowState`, but the code compares messages with the listener's `previousState`:
the invariant `Control` says that these agree (`InStep`), from the moment the
listener is started with the loop's first state (`StartsTogether`), and that
what the listener is about to store follows what is there (`AcceptsNext`).  None of it
depends on how many messages `PermissionChan` holds.

## PluginDeploy: deploying a plugin

| Code | Model |
|---|---|
| `trcplgtool -certify` | `Certify` |
| carrier `TrcUpdate` with a plugin; the loop over `tokenEnvChan` | `TrcUpdate`, `Take` |
| `TrcInitialize`, once per environment | `TrcInitialize` |
| `PluginDeployFlow`: record and instance; sha256 of the file; download; `os.WriteFile`; mode | `ReadSignature`; `Compare`; `Download`; `Open`, `Fill`; `SetMode` |
| `PushPluginSha`, and the write of the record between its two calls | `PushPluginSha`, `UpdateRecord`, `PushLast` |
| the plugin process dies; a failed write dereferences a nil `downloadErr` | `Crash`, `WriteFails` |

`os.WriteFile` is two steps, because an open with truncation and the writes after it are
two system calls: in between another deployment may open or fill the file.  A shorter
image written over a longer one leaves `Garbled`.  `held` and `issued` are history
variables.  Left out: agents (a directory, group and override record of their own), the
hosts' regions, and every other plugin: two plugins share neither file nor record.  The
configuration function of the carrier (`ProcessDeployPluginEnvConfig`) is a hook: the
repository's own version is a stub that returns an empty map, with which no deployment
starts.  The model is of a build whose function completes the map it is given and
returns that same map, as `ProcessPluginEnvConfig` of the other plugins does
(`buildopts/buildoptsfunc.go` 128) and as the sha256 channel in it presumes.

| Run | Bounds | States | Shows |
|---|---|---|---|
| PluginDeploy | 2 environments, 1 request, 2 images, 1 certification, 1 crash, every error; fair | 699,000 | `TypeOK`, `RecordIsCertified`, `AnswerIsCurrent`, `InstalledStays`, the invariant `Coherent`; `Answered`, `TornIsFilled` |
| PluginDeployRefused | 1 environment, download may fail | violation | `AnswerIsCopied` |

Three deployments write one file: enough for `Garbled`, and for a reader beside two
writers.  `Errors` holds all kinds of failure, a request
that `confirmInput` refuses (`Unconfirmed`) among them.  Deadlock is not checked: after a
request has been answered the second `PushPluginSha` of its deployment waits for
ever for a receiver (process.go 405), which is a state the program stays in.

Fairness: weak for every deployment (its calls end, well or not), for the loop and
for the start-up queue.  `Certify`, `TrcUpdate` and crashes owe nothing.

Proved (`PluginDeployProofs`), for any environments, requests, images, errors and
crashes: `CoherentAlways`, and from it `TypeCorrect`, `RecordCertified`,
`AnswersCurrent`, `InstalledStaysAlways`.  The inductive invariant `Coherent` adds to
the properties what a deployment in progress knows: the sha256 it read was
certified for its environment (`ShaOK`), its request has been watching the record
since before that read (`RequestOK`), and a deployment that is about to write finds
the file torn, its own, or can name another writer (`WriterOK`) - the case that makes
a garbled file explicable.

## FlowStartup and TrcdbBackend: from a request to running flows

| Code | Model |
|---|---|
| `ProcessFlows`: vault, configurations, engines, the controller's goroutine, the waits | `Begin`, `OpenVault`, `LoadConfigs`, `BuildEngine`, `StartController`, `AwaitController`, `TakeAlert`, `StartFlows`, `AwaitConfig` |
| the controller's goroutine, up to its loop | `ControllerVault`, `ControllerConnect`, `ControllerLoad`, `FirstImport` |
| the goroutine of a flow, up to its permission message | `FlowLoad`, `FlowPermit` |
| `BuildInterface` and the goroutine that reads permissions | `BuildInterface`, `Opened`, `ReadPermission` |
| the backend's handlers; `PushEnv`; the loop of `Init` | `TrcInitialize`, `TrcCreate`, `TrcUpdate`, `TrcRead`; `PushEnv`; `Take` |

A *run* `r` is one call of `ProcessFlows`.  The backend calls it for everything it
takes from its queue, also for an environment whose flows run already; the second
run then finds the ports of the first taken (`port`).  A panic ends the plugin and
everything in it; of a run that comes to one, at an engine that could not be made or a
map that was not (`BuildEngine`, `AwaitConfig`), the model follows the end of that run only.

A handler stores the entry and pushes it in two steps, so two requests of one
environment may push in the other order than they stored, and nothing in the code orders
them.  `raced` (history) has the environments whose *last* request met another: a
request that comes alone takes its environment out again, since what it stores is newest
and what it pushes is last.  `LatestStored` holds outside `raced` only; it says that the
queue keeps the order, and that one lone request settles whatever others left behind.  A
configuration that is refused leaves the loop at a send to a nil channel (`loop =
"stuck"`), since the plugin is headless.

Proved (`TrcdbBackendProofs`, concluded in `AskFlumeProofs` for the sessions of
`MCTrcdbBackend`), for any runs, flows, environments, clients, entries and queue:
`SignalsComeFirst` (`StatesFirst`) and `NewestIsStarted` (`LatestStored`).  `Signals`
follows the controller's goroutine: the alert is there only while it checks states, it
checks them after its connections, and `ProcessFlows` spawns flows and opens interfaces
only after the alert.  `Newest` says where an environment's newest entry is: with the
one request that is busy with it, else at its *last* place in the queue, else the loop
has taken it, for environments outside `raced`.  `Signals` also shows that a run which
serves has its controller in the endless loop, so that `flowWG.Wait` is where
`ProcessFlows` ends up: the model has no action after it.

## DataFlowStatistics and AskFlume: reports and questions

| Code | Model |
|---|---|
| `InitDataFlow`, `UpdateDataFlowStatistic`, `FinishStatistic`, the insert, the change row, the write to vault | actions of these names, `InsertStatistic`, `RecordStatistic`, `WriteStatistic` |
| the persist of `FlowSync`, here in two steps | `FlushRead`, `FlushStore` |
| the truncate of a restart or a refresh (`process_dataflowstatistics.go` 256-262) | `TruncateTable` |
| `RetrieveStatistic`, the fill from vault that follows it, and at a start | `PullStart`, `Retrieve`, `RetrieveStatistic`, `LookUp`, `PutStatistic`, `PullEnds` |
| a panic of any goroutine; the process killed | `NothingRetrieved`, `NoResponse`; `Killed`, `Restart` |
| the chat's web server, `PubChatEvent`; the proxy's four answers | `Post`, `PubChatEvent`; `UpsertElements`, `ProcessDF`, `ProcessGChatAnswer` |
| the flume's client, sender, receiver with its four handlers | `GetQuery`, `SendCase`, `ResetCase`, `handleGChatQuery` to `handleGchatAnswer`, `Upsert` |

Both read the same failures of tests: a question is answered with the rows that
`DataFlowStatistics` has at that moment, and a question that DialogFlow maps to
another topic ends the process, flows included (`NoResponse`).  `excused` and `eaten`
are history: what a failing call, a truncate, a fill or the death of the process took
away, and whether a `FlowCase` was reset before it was read.

`TruncateTable` empties the table and leaves the change table as it is: a statistic that was
recorded and not yet read for vault is gone, and a flush of its id later finds no row and
stores nothing.  The code has nothing against it, so such a statistic is excused; one whose
row a flush has in hand is not, and gets to vault.

| Run | Bounds | States | Shows |
|---|---|---|---|
| TrcdbBackend | *start*: 1 environment, 2 runs, 2 flows, a good and a bad entry, 2 pushes, a queue of 1, permission channel of 1; *requests*: 2 good entries and a bad one, 3 pushes, a queue of 2, no flow moves; *report*: 1 reporter of two codes, none in vault yet, 2 starts, 1 failing call, 1 fill, any truncates; *ask*: 3 questions, 2 of them answerable | 293,000 | `TypeOK`, `StatesFirst`, `LatestStored`, `KeptInVault`, `TurnGoesAround`; `StartEnds`, `PermitsPass`, `QuestionsAnswered` |

Why the bounds are enough: two runs of one environment are the first that can compete
for a port; two flows fill a permission channel of one; one client beside the mount
(`Mount`, `TrcInitialize`) makes two requests that meet.  Two entries in the queue are
the first that have an order, and a third push is the lone one after two that met; what
is taken from the queue does not depend on how far the runs are, so the second session
leaves them at their beginning.  A fill can overtake one report, and a second start
makes an older row.  Three questions are a question asked, one waiting and one that does
not fit the channel.

Fairness: weak, for every goroutine of a started run and for client, sender and
receiver: they wait for channels and calls only, and each alone can take what it
waits for.  Requests, users, reports and crashes owe nothing.  The escapes named
in the properties are places where the code has no way out: a controller that
ended before its signal, an interface that does not read permissions, a `FlowCase`
that was eaten.

Proved (`AskFlumeProofs`), for any reporters, tests, questions and bounds:
`SessionsTypeCorrect`, `StatisticsAreKept` (`KeptInVault`) and `OneHasTheTurn`
(`TurnGoesAround`).

* `KeptInVault` speaks of a report that nobody works on any more.  `Reported` says where
  its date is before that: in a row that is still a change, in the row a flush
  has in hand, or in vault; `Trees` protects the row between its statement and its
  change row, where a truncate may wipe it or a fill overwrite it, which excuses it;
  `Changes` says that a change without a row was wiped, `Pulled` that nobody puts what
  vault does not have.
* `TurnGoesAround` is about the shared context.  `OneTurn` says that client,
  `FlowCase`, the channel and the receiver exclude each other pairwise, which no single
  lock or channel does; `OneQuestion` that what goes around is always the case of the
  element, about the question taken last.

## CapAuth, ModifierCache and Trcsh: the deployment shell

| Code | Model |
|---|---|
| `PluginDeployEnvFlow`, `servercapauth.Init`, `Memorize`, `Start`, the tap | `ValidateTrcshPathSha`, `Init_FeatherAuth`, `Memorize`, `Start`, `Tap` |
| the agents' queries and their retries | `PenseQuery`, `PenseFeatherQuery`, `Accepted`, `RetryingPenseFeatherQuery` |
| `NewModifier`, `Release`, `CleanCache` | `NewModifier`, `Release`, `ResetModifier`, ... |
| trcsh's main, `EnableDeployer`, `TrcshAuth`, `ProcessDeploy` and its loop over commands | `CommonMain`, `NewAgentConfig`, `AgentSecrets`, `GetDeployers`, `EnableDeployer`, `TrcshAuth`, `Preload`, `LoadPluginDeploymentScript`, `PickTool`, `TrcPub`, `TrcConfig`, `TrcSub`, `TrcPlgTool`, `KubeCtl`, `AfterTool`, `NextCommand`, `SendComplete`, `ReRun` |
| what the controller's library does to a session | `Request`, `Controller` (external) |

On unix trcsh is a driver that runs one script; on windows an agent with a
goroutine per deployment.  Both share `ProcessDeploy`, the secrets, the agent
configuration and the cache, so one module has both (`agent`).  An answer of the hat may be
empty and is accepted as it is: main keeps it as a secret, and what needs the secret later
(`GetDeployers`, an agent's own address) stops there.  An agent whose tool fails sends two
messages, the error and a `COMPLETE`, before it waits for the next session (`EndTool`).

| Run | Bounds | States | Shows |
|---|---|---|---|
| Trcsh | 1 deployment beside the main goroutine, 2 sessions, 2 versions of the script, 2 pipelines of 2 commands, 2 queries, cache of 3, 3 messages waiting | 1.40 M | `TypeOK`, `FreshInput`, `SecretsFirst`, `OwnToken` |

Why the bounds are enough: a second session is the first that can find what another
left; a second pipeline the first with a predecessor's output; two commands use two
roles.  Deadlock is off: the driver ends, and an agent waits for its controller.

Proved (`TrcshProofs`), for any deployments, versions, pipelines, queries and cache:
`TrcshTypeCorrect`, `SessionsRunFreshScripts` (`FreshInput`), `SecretsComeFirst`
(`SecretsFirst`), `ToolsUseOwnToken` (`OwnToken`).  The invariant has a part for each
way trcsh runs.  `AgentSide`: goroutines exist when the main one waits, with every
shared secret answered, and only the main one asks.  `DriverSide`: there is one
goroutine, which leaves its authentication only with what `IsValid` accepts.  `Scripts`:
a script is dropped before its goroutine waits again, so a loaded one is as new as what
was asked for.  `Caching`: the driver leaves the cache empty, and an agent's tools have
one role, `config`, hence a cached modifier never has another's token.  The last is why
`OwnToken` holds although the cache does not look at roles: it holds of the tools an
agent has, not of the cache.

## VaultKV, TrcX, TrcInit, TrcConfig, ToolChain and Rotation: the tools

| Code | Model |
|---|---|
| `Modifier`'s reads and writes, `WriteRetries`, versions and their bounds | `VaultKV` |
| `trcx`: generators, workers, the one result channel, receivers, the seed | `XStart` to `XDone`, `Worker`, `Receive`, `WriteSeed` |
| `trcinit`: files of an environment and its sections, certificates alone, placeholders, entries and their writes, verify | `InitStart` to `InitDone`, `SeedCertificates`, `Refused`, `WriteLinks`, `WriteData`, `Verify` |
| `NewModifier` and where `SeedVaultFromData` points it | `modifier`, `NewModifierFrom`, `Pointed`, `PathOf` |
| `trcconfig`: the slice of configurations, renderings, the comparison | `CStart` to `CDone`, `CAppend`, `GenerateConfigsFromVault`, `Render` |
| `trcinit -new`, `-initns`, `-rotateTokens`; the web API's `InitVault` | `NewVault`, `InitNamespace`, `RotateStart` to `StoreTokens`; `InitVault` |

A datum carries the target it was entered for, so that `OwnData` can say that it is
never found under another.  The channel of results is a set: receivers put back
what is not theirs, so any order comes.

A run of trcinit takes the file of its environment and those of its sections
(`InitTarget`): `CheckInitFlags` looks at `-base` before the flags are parsed (`init.go`
88), so that by default both are seeded in one process.  Every file goes through one
modifier of the cache, whose `Env` the code sets for each file and whose `SectionPath`
it sets for a section only: that data of the environment does not end up below the last
section is due to `NewModifier`, which empties a cached modifier's section
(`Modifier.go` 99-113, `NewModifierFrom`).  A file that is refused, or for which no
modifier can be made, is skipped and the next one seeded, because `ExitOnFailure` is not
set (`init.go` 782-787) and `SeedVaultFromFile` drops the error (`vault-seed.go` 453,
`FileDone`).

A rotation counts the tokens made under a
name and keeps the set of live ones; any of its steps may be the last
(`RotationExit`).

| Run | Bounds | States | Shows |
|---|---|---|---|
| ToolChain | 2 templates (one of a certificate), 3 runs of tools, 1 failing call; *new*: a new vault, 2 environments and a section, one tool at a time; *together*: a seeded vault, the same, 2 tools at a time; *sections*: seed files ready, an environment and 2 sections, one tool at a time; *rotate*: 2 names, 2 approles, 3 tokens a name | 1.50 M | `TypeOK`, `OwnData`, `WholeSeeds`, `NoPlaceholder`, `TokensLive` |
| ToolChainSeed | a call may fail | violation | `SeedWritten` |

Why the bounds are enough: two environments are needed to confuse them; a section is
written through its environment's modifier; a certificate takes the other path through
seeds.  The environment's file with two sections is the smallest run of trcinit that
goes from a section to the environment (the order of the directory) and from one section
to another; a trcx of two sections or a reader follows it.  Two tools at a time
interleave every pair on a vault that has something to lose; three runs are a seed, a
change of it and a reader, and the sessions that start from a seed have made the first.
Three tokens a name are a rotation after one that ended halfway.  These modules state
safety only: the tools end or are ended by their operator, and nothing is promised of an
interrupted one.  Deadlock is off: bounded runs of tools stop.

Proved (`ToolChainProofs`, `RotationProofs`), for any targets, templates, certificates,
names, approles and bounds: `ToolsTypeCorrect`, `DataStaysOwn` (`OwnData`), `SeedsAreWhole`
(`WholeSeeds`), `PlaceholdersStayOut` (`NoPlaceholder`), `RotatedTokensLive` (`TokensLive`).

* The properties are of seeds, vault and renderings; the invariant follows a datum
  through what is between them.  `Own(t)` is what may be found under a target;
  `Received` says that a result is the target's it names, and that a generator has the
  result of every template its wait group no longer counts; `Loaded` that what trcinit
  has parsed is the file's, and passed its check for placeholders before the first
  write (`Storable`), and that the modifier points to the file being seeded or where nothing
  is kept; `Rendered` the same of trcconfig's goroutines.  `VaultInv` has it of
  *every* version of a bucket, since a reader may ask for an old one.
* `TokensLive` is about what approles are given.  It needs that revoking ends where
  making begins (`NothingYet`), that a token made by this run lives (`FreshLive`), and
  that the map about to be stored has that token or none (`MergedLive`).

## Findings

Each violation run checks what the repository says of itself; see `PROJECT.json`.

1. *FlowSyncReinject*: the loop re-injects `changedId`, a variable it never assigns,
   so a change whose path is not there yet is not tried again.
2. *PluginDeployRefused*: a client is told the certified sha256 when nothing was
   copied.
3. *ToolChainSeed*: a write that fails while vault is seeded is not repeated, the
   entries after it go to another environment, and the file is reported complete.

## Observations

What reading and modelling showed beside the findings.  Where a model contains it,
the definition is named; the properties are stated so that they hold with it.

* Write-behind: a row whose path is empty without an error is passed over and nothing
  logged (`context_helper.go` 379, `NoTenant`), and so is a statement of an SQL session
  for which no trigger fires (`SqlStatement`).  A deletion pushed to the remote names no
  row (`context_helper.go` 302, `PushDelete`).  The `Clear` that ends a persist swallows
  notifications that came during it (`context.go` 443, `Clear`).  A cycle that is not in
  its select when its Context is cancelled reads the Context of the next one (572,
  `Done`).  `CreateTableTriggers` unlocks its lock twice when `GetTriggers` fails
  (308-327).  Rows that fail to be read are dropped by `QueryWithBindings` (`db.go`
  227).  For composite keys the index columns are appended to one shared slice
  (`context_helper.go` 161).
* Controller: a load longer than the ingest interval starts further cycles, of which
  a stop cancels the last (`process_dataflowstatistics.go` 266).  A load sends to
  `PermissionChan` with `FlowLock` held (155), so that without a reader of the channel the
  listener stores no state any more (`Loaded`, `SendPermission`).  `refreshEnded` may take
  back the token that a sleeping refresh has not seen (338).  A load that ends after
  the table was wiped clears `Init` (`context.go` 640).  States outside 0-3 all have 3 as
  previous state (`options_common.go` 212).
* Start-up: `ProcessFlows` does not return once it serves: `flowWG.Wait` (`process.go`
  541) waits for the controller's goroutine, whose loop has no end
  (`process_tierceronflow.go` 179).  Several errors of `ProcessFlows` are returned as a
  nil `err` (`OpenVault`, `LoadConfigs`); a controller that cannot reach vault leaves
  `ProcessFlows` waiting (`process.go` 328).
* Backend: two requests of one environment may push in the other order than they stored
  (`backend.go` 476); the flows then run with the replaced entry until the next request
  (`raced`).
* Statistics: `CompareLastModified` compares a map with itself, so that a row the table
  has is never updated from vault (`options_common.go` 181, `LookUp`), and a retrieval
  that finds nothing dereferences it (`process_dataflowstatistics.go` 143,
  `NothingRetrieved`).  A restart empties the table but not the change table, so a
  statistic that was recorded and not yet read for vault is lost and the fill brings
  back the older one (260, `TruncateTable`).
* Ask Flume: `FlowCase` may be reset before it is read (`process_askflume.go` 98,
  `ResetCase`); answers lose the genre; the proxy's channel of answers is never made
  (`pubsub.go`), so a manual chat gets none (`asked = "parked"`); `Close` is never set.
* Deployment: `copied` and `deployed` are only ever reset, so `PluginDeployedUpdate` finds
  nothing to mark (`trcplgtoolbase.go` 785).  For tokens, the carrier's `TrcUpdate`
  writes the request's data alone, not the merged map (`backend.go` 693-701).
* Trcsh: `completeOnce` is declared inside the loop, so `COMPLETE` is sent every second
  while a session runs (`trcsh.go` 1052, `SendComplete`).
* Tools: `DiffHelper` returns with its mutex held when the map is empty (`diffUtil.go`
  369); the messenger of trcconfig drops a result
  whose file cannot be read; `Write`
  repeats an attempt whose answer was lost, so versions double (`Modifier.go` 320).
* Tokens: between its first revocation and its last store a rotation leaves approles
  with revoked tokens (`init.go` 377); the `continue` of its role filter belongs to the
  inner loop, so every approle is processed (445).  The web API's `InitVault` passes a
  nil file filter that `UploadTokens` dereferences (`VaultInit.go` 91, `tokens.go` 30): the
  request panics at the first token file, with policies made, which makes `-new` and
  `-initns` refuse the vault afterwards (`InitVault`).

## What is proved and what is only checked

Proved for every value of the constants: the type invariant, every safety
invariant and every action property that a run checks, the refinement of
`WriteBehind` by `FlowSync`, and that `WriteBehind` loses nothing.  TLC checked each
property on its run first; what an inductive invariant adds to one is described with
the module it belongs to.

Assumptions: `~Overlap` where it is named, the two of `LossIsLogged`, and the named
ASSUMEs of the modules.  These say what constants are (bounds are natural numbers,
special values differ from data) and, where the code presumes it: at least one round of
data to enter (`VaultAssumption`), a cache whose limit is below its room, as the
constants of `Modifier.go` are (`CacheAssumption`), queues and channels that hold
something, and a main goroutine that is no deployment (`TrcshAssumption`).

Only model-checked:

* what needs fairness, since the provers reason about neither liveness nor ENABLED:
  the four properties of FlowSyncLive, the two of FlowControlLive, `Answered`,
  `TornIsFilled`, `StartEnds`, `PermitsPass`, `QuestionsAnswered`;
  `ShutdownCompletes` and `StartupCompletes` moreover assume `Drained`;
* the three violations, whose counterexamples are the result.

What no property catches, because the code permits it: the hazards of `PROJECT.json`
whose list of properties is empty, and what the notes of the others say.  The models
contain each of them.

No module uses recursion, so no definition was out of the provers' reach.

## Not modelled

* The SQL engine's inside (a call is atomic under `FlowLock`), encryption and key
  material, HTTP, Kubernetes, registries and the transport of cap, tap and mashup (a
  call that succeeds or fails), the text of paths, queries, diffs and answers.
* Generated RPC code, the web API's other handlers and the dashboards: they forward
  to vault and keep no state.
* Code the repository does not call: `InitArgosyFleet` (whose vault branch panics),
  `UpdateDataFlowStatisticWithTime`, `Log` of the statistics; what depends on
  `TrcShellRaw`, which nothing sets.
* `-dynamicPath` and `-seedPath` of trcx, whose generators cannot be told apart in the
  result channel, and trcsub, which copies files.
* Carrier requests for tokens alone, agents' records, `PluginDeployedUpdate`; the code
  bundles of the plugin tool.
* Utilities that format, parse and log; commands, build options and installers.  The
  guards of those that others call are in the callers' modules.
* A data race on Go maps, which the runtime may end with a crash, is covered by the
  crash actions where a model has one.

## What may come next

* Composition of `FlowControl` and `FlowSync` (the cycle of a Context, the table wiped by
  a restart), to state what happens to a load that ends after a wipe.
* A weaker promise for overlapping cycles: with `Overlap` the refinement fails where two
  cycles store one row in the wrong order, and what then still holds (`RemovalIsExclusive`,
  `TriggersComeBack`) could be an abstract specification of its own.
