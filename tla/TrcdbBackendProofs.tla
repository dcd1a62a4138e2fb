-------------------------- MODULE TrcdbBackendProofs --------------------------
(***************************************************************************)
(* Proofs about TrcdbBackend and the start-ups it begins (FlowStartup):    *)
(* every type, that a flow runs only after the three signals of the        *)
(* controller, and that the flows of an environment were last started with *)
(* what vault has.  For any number of runs, flows, environments, clients   *)
(* and entries, and queues of any length.                                  *)
(***************************************************************************)
EXTENDS TrcdbBackend, TLAPS

Early   == {"idle", "vault", "config", "engine", "start"}
Opening == {"controller", "db", "serving"}

-----------------------------------------------------------------------------
(* The inductive invariant. *)

(* Nothing has happened before the controller is started; it sends the states *)
(* after it has its connections, and ProcessFlows goes on with their alert.   *)
(* configWG is nil from the first interface on.                               *)
Signals(r) ==
  /\ main[r] \in Early => /\ controller[r] = "none" /\ ~alert[r]
                          /\ \A f \in Flows : flow[r][f] = "none"
                          /\ \A d \in Doors : face[r][d] = "closed"
  /\ controller[r] \in {"load", "import", "checking"} => initWG[r] = 0
  /\ alert[r] => controller[r] = "checking"
  /\ main[r] \in {"spawn", "configured"} \cup Opening => controller[r] = "checking" /\ ~alert[r]
  /\ (\E f \in Flows : flow[r][f] # "none") => controller[r] = "checking" /\ ~alert[r]
  /\ main[r] \in {"configured"} \cup Opening => \A f \in Flows : flow[r][f] # "none"
  /\ main[r] \in Opening => configWG[r] = Nil
  /\ (\E d \in Doors : face[r][d] # "closed") => configWG[r] = Nil /\ \A f \in Flows : flow[r][f] # "none"

Pushes(c, e) == client[c].at = "push" /\ client[c].env = e
Queued(e)    == {i \in DOMAIN queue : queue[i].env = e}

(* Where an environment's newest entry is: with the one request that is busy   *)
(* with it, else at its last place in the queue, else the loop has taken it.   *)
Newest(e) ==
  /\ \A c \in Threads : Pushes(c, e) => /\ client[c].entry = stored[e]
                                        /\ \A d \in Threads : Pushes(d, e) => c = d
  /\ ~Busy(e) => \A i \in Queued(e) : (\A j \in Queued(e) : j <= i) => queue[i].entry = stored[e]
  /\ ~Busy(e) /\ Queued(e) = {} /\ taken[e] # NoEntry => taken[e] = stored[e]

(* What a request pushes is a whole configuration. *)
Requests ==
  \A c \in Threads : client[c].at = "push" => client[c].env \in Envs /\ client[c].entry \in Entries

BackendInv ==
  /\ BackendTypeOK /\ Requests
  /\ \A r \in Runs : Signals(r)
  /\ \A e \in Envs \ raced : Newest(e)

-----------------------------------------------------------------------------
(* A start-up. *)

LEMMA StartupInitial == StartupInit => StartupTypeOK /\ \A r \in Runs : Signals(r)
<1> SUFFICES ASSUME StartupInit PROVE StartupTypeOK /\ \A r \in Runs : Signals(r)
  OBVIOUS
<1>1. StartupTypeOK
  BY StartupAssumption DEF StartupInit, StartupTypeOK, Nil, Free
<1>2. \A r \in Runs : Signals(r)
  BY DEF StartupInit, Signals, Early, Opening
<1> QED BY <1>1, <1>2

LEMMA BeginKeeps ==
  ASSUME StartupTypeOK, NEW q \in Runs, NEW e \in Envs, Begin(q, e), \A r \in Runs : Signals(r)
  PROVE  StartupTypeOK' /\ \A r \in Runs : Signals(r)'
<1> USE DEF Begin, Main, ctlVars, flowVars, faceVars
<1>1. StartupTypeOK'
  BY DEF StartupTypeOK
<1>2. ASSUME NEW r \in Runs PROVE Signals(r)'
  <2>1. r = q => main[r] = "idle" /\ main'[r] = "vault"
    BY DEF StartupTypeOK
  <2>2. r # q => main'[r] = main[r]
    BY DEF StartupTypeOK
  <2> QED BY <2>1, <2>2 DEF Signals, Early, Opening
<1> QED BY <1>1, <1>2

LEMMA StartupKeeps ==
  ASSUME StartupTypeOK, NEW r \in Runs, RunNext(r)
  PROVE  StartupTypeOK'
<1> USE DEF mainVars, ctlVars, flowVars, faceVars, Main, Controller, Flow
<1>1. CASE OpenVault(r) \/ BuildEngine(r) \/ AwaitController(r)
  BY <1>1, ZenonT(60) DEF OpenVault, BuildEngine, AwaitController, StartupTypeOK
<1>2. CASE LoadConfigs(r)
  BY <1>2 DEF LoadConfigs, StartupTypeOK
<1>3. CASE StartController(r)
  BY <1>3 DEF StartController, StartupTypeOK
<1>4. CASE TakeAlert(r) \/ FirstImport(r)
  BY <1>4 DEF TakeAlert, FirstImport, StartupTypeOK
<1>5. CASE ControllerVault(r) \/ ControllerConnect(r)
  <2>1. CASE ControllerVault(r)
    BY <2>1 DEF ControllerVault, StartupTypeOK
  <2>2. CASE ControllerConnect(r)
    BY <2>2 DEF ControllerConnect, Connected, StartupTypeOK
  <2> QED BY <1>5, <2>1, <2>2
<1>6. CASE ControllerLoad(r)
  BY <1>6 DEF ControllerLoad, StartupTypeOK
<1>7. CASE StartFlows(r)
  BY <1>7 DEF StartFlows, StartupTypeOK
<1>8. ASSUME NEW f \in Flows, FlowStep(r, f) PROVE StartupTypeOK'
  <2>1. CASE FlowLoad(r, f)
    BY <2>1 DEF FlowLoad, StartupTypeOK
  <2>2. CASE FlowPermit(r, f)
    BY <2>2, StartupAssumption DEF FlowPermit, StartupTypeOK
  <2> QED BY <1>8, <2>1, <2>2 DEF FlowStep
<1>9. CASE AwaitConfig(r)
  BY <1>9 DEF AwaitConfig, StartupTypeOK, Doors
<1>10. ASSUME NEW d \in Doors, NEW next \in {"db", "serving"}, BuildInterface(r, d, next) PROVE StartupTypeOK'
  <2>1. main' \in [Runs -> {"idle", "vault", "config", "engine", "start", "connections",
                        "alert", "spawn", "configured", "controller", "db", "serving",
                        "error", "nothing"}]
    BY <1>10 DEF BuildInterface, StartupTypeOK
  <2>2. face' \in [Runs -> [Doors -> {"closed", "open", "unread"}]]
    <3>1. face' = face \/ \E s \in {"open", "unread"} : face' = [face EXCEPT ![r][d] = s]
      BY <1>10 DEF BuildInterface, Opened
    <3>2. \A s \in {"open", "unread"} :
            [face EXCEPT ![r][d] = s] \in [Runs -> [Doors -> {"closed", "open", "unread"}]]
      BY DEF StartupTypeOK
    <3>3. face \in [Runs -> [Doors -> {"closed", "open", "unread"}]]
      BY DEF StartupTypeOK
    <3> QED BY <3>1, <3>2, <3>3
  <2>3. port' \in [Envs -> [Doors -> Runs \cup {Free}]]
    <3>1. port' = port \/ port' = [port EXCEPT ![envOf[r]][d] = r]
      BY <1>10 DEF BuildInterface, Opened
    <3>2. \A e : [port EXCEPT ![e][d] = r] \in [Envs -> [Doors -> Runs \cup {Free}]]
      BY DEF StartupTypeOK
    <3>3. port \in [Envs -> [Doors -> Runs \cup {Free}]]
      BY DEF StartupTypeOK
    <3> QED BY <3>1, <3>2, <3>3, ZenonT(60)
  <2> QED BY <1>10, <2>1, <2>2, <2>3 DEF BuildInterface, StartupTypeOK
<1>11. CASE ReadPermission(r)
  BY <1>11, StartupAssumption DEF ReadPermission, StartupTypeOK
<1> QED BY <1>1, <1>2, <1>3, <1>4, <1>5, <1>6, <1>7, <1>8, <1>9, <1>10, <1>11
        DEF RunNext, StartupStep, ControllerStep, Doors

(* A run changes nothing of another's. *)
LEMMA OthersUnchanged ==
  ASSUME StartupTypeOK, NEW q \in Runs, RunNext(q), NEW r \in Runs, r # q
  PROVE  /\ main'[r] = main[r] /\ controller'[r] = controller[r] /\ alert'[r] = alert[r]
         /\ initWG'[r] = initWG[r] /\ configWG'[r] = configWG[r]
         /\ flow'[r] = flow[r] /\ face'[r] = face[r]
<1> USE DEF StartupTypeOK, mainVars, ctlVars, flowVars, faceVars, Main, Controller, Flow
<1>1. CASE StartupStep(q)
  <2>1. CASE \/ OpenVault(q) \/ LoadConfigs(q) \/ BuildEngine(q) \/ AwaitController(q)
    BY <2>1 DEF OpenVault, LoadConfigs, BuildEngine, AwaitController
  <2>2. CASE StartController(q) \/ TakeAlert(q) \/ StartFlows(q) \/ AwaitConfig(q)
    BY <2>2 DEF StartController, TakeAlert, StartFlows, AwaitConfig
  <2>3. ASSUME NEW d, NEW next, BuildInterface(q, d, next)
        PROVE  main'[r] = main[r] /\ face'[r] = face[r] /\ UNCHANGED <<ctlVars, flowVars>>
    BY <2>3 DEF BuildInterface, Opened
  <2> QED BY <1>1, <2>1, <2>2, <2>3 DEF StartupStep
<1>2. CASE ControllerStep(q) \/ ReadPermission(q)
  BY <1>2 DEF ControllerStep, ControllerVault, ControllerConnect, Connected, ControllerLoad,
              FirstImport, ReadPermission
<1>3. ASSUME NEW f \in Flows, FlowStep(q, f) PROVE flow'[r] = flow[r] /\ UNCHANGED <<mainVars, ctlVars, faceVars>>
  BY <1>3 DEF FlowStep, FlowLoad, FlowPermit
<1> QED BY <1>1, <1>2, <1>3 DEF RunNext

LEMMA SignalsStep ==
  ASSUME StartupTypeOK, NEW r \in Runs, RunNext(r), Signals(r)
  PROVE  Signals(r)'
<1> USE DEF StartupTypeOK, mainVars, ctlVars, flowVars, faceVars, Main, Controller, Flow
<1>1. CASE \/ OpenVault(r) \/ LoadConfigs(r) \/ BuildEngine(r)
  <2>1. /\ main[r] \in Early /\ main'[r] \in Early \cup {"error", "nothing"}
        /\ UNCHANGED <<ctlVars, flowVars, faceVars>>
    BY <1>1 DEF OpenVault, LoadConfigs, BuildEngine, Early
  <2> QED BY <2>1 DEF Signals, Early, Opening
<1>2. CASE StartController(r)
  BY <1>2 DEF StartController, Signals, Early, Opening
<1>3. CASE AwaitController(r)
  BY <1>3 DEF AwaitController, Signals, Early, Opening
<1>4. CASE TakeAlert(r)
  BY <1>4 DEF TakeAlert, Signals, Early, Opening
<1>5. CASE StartFlows(r)
  <2>1. \A f \in Flows : flow'[r][f] # "none"
    BY <1>5 DEF StartFlows
  <2>2. main[r] = "spawn" /\ main'[r] = "configured" /\ UNCHANGED <<ctlVars, faceVars>>
    BY <1>5 DEF StartFlows
  <2> QED BY <2>1, <2>2 DEF Signals, Early, Opening
<1>6. CASE AwaitConfig(r)
  <2>1. /\ main[r] = "configured" /\ main'[r] \in {"controller", "db", "error"} /\ configWG'[r] = Nil
        /\ UNCHANGED <<controller, initWG, alert, flow, face>>
    BY <1>6 DEF AwaitConfig, Doors
  <2> QED BY <2>1 DEF Signals, Early, Opening
<1>7. ASSUME NEW d \in Doors, NEW next \in {"db", "serving"}, BuildInterface(r, d, next) PROVE Signals(r)'
  <2>1. /\ main[r] \in Opening /\ main'[r] \in {"error"} \cup Opening /\ UNCHANGED <<ctlVars, flowVars>>
    BY <1>7 DEF BuildInterface, Doors, Opening
  <2> QED BY <2>1 DEF Signals, Early, Opening
<1>8. CASE ControllerStep(r)
  <2>1. main[r] \notin Early /\ UNCHANGED <<mainVars, flowVars, faceVars>>
    BY <1>8 DEF ControllerStep, ControllerVault, ControllerConnect, ControllerLoad, FirstImport, Signals
  <2>2. CASE ControllerVault(r)
    BY <2>1, <2>2 DEF ControllerVault, Signals, Opening
  <2>3. CASE ControllerConnect(r)
    BY <2>1, <2>3 DEF ControllerConnect, Connected, Signals, Opening
  <2>4. CASE ControllerLoad(r)
    BY <2>1, <2>4 DEF ControllerLoad, Signals, Opening
  <2>5. CASE FirstImport(r)
    BY <2>1, <2>5 DEF FirstImport, Signals, Opening
  <2> QED BY <1>8, <2>2, <2>3, <2>4, <2>5 DEF ControllerStep
<1>9. CASE ReadPermission(r)
  BY <1>9 DEF ReadPermission, Signals
<1>10. ASSUME NEW f \in Flows, FlowStep(r, f) PROVE Signals(r)'
  <2>1. /\ flow[r][f] # "none" /\ UNCHANGED <<mainVars, ctlVars, faceVars>>
        /\ \A g \in Flows : flow'[r][g] = "none" <=> flow[r][g] = "none"
    BY <1>10 DEF FlowStep, FlowLoad, FlowPermit
  <2> QED BY <2>1 DEF Signals
<1> QED BY <1>1, <1>2, <1>3, <1>4, <1>5, <1>6, <1>7, <1>8, <1>9, <1>10
        DEF RunNext, StartupStep, Doors

LEMMA SignalsKeep ==
  ASSUME StartupTypeOK, NEW q \in Runs, RunNext(q), \A r \in Runs : Signals(r)
  PROVE  \A r \in Runs : Signals(r)'
<1> TAKE r \in Runs
<1>1. CASE r = q
  BY <1>1, SignalsStep
<1>2. CASE r # q
  BY <1>2, OthersUnchanged DEF Signals
<1> QED BY <1>1, <1>2

-----------------------------------------------------------------------------
(* The backend. *)

Configurations == [env : Envs, entry : Entries]
AClient == [at : {"idle", "push"}, env : Envs \cup {NoEnv}, entry : Entries \cup {NoEntry}]

LEMMA BackendInitial == BackendInit => BackendInv
<1> SUFFICES ASSUME BackendInit PROVE BackendInv
  OBVIOUS
<1>1. BackendTypeOK
  <2>1. StartupTypeOK
    BY StartupInitial DEF BackendInit
  <2>2. queue \in Seq(Configurations) /\ Len(queue) <= QueueLength
    BY BackendAssumption DEF BackendInit
  <2>3. client \in [Threads -> AClient]
    BY DEF BackendInit, Resting, AClient
  <2>4. /\ toInit \in Seq(Envs) /\ pushes \in 0 .. MaxPushes /\ raced \subseteq Envs
        /\ boot \in {"lookup", "served", "lost"} /\ loop \in {"boot", "wait", "stuck"}
        /\ stored \in [Envs -> Entries \cup {NoEntry}] /\ taken \in [Envs -> Entries \cup {NoEntry}]
    BY BackendAssumption DEF BackendInit
  <2> QED BY <2>1, <2>2, <2>3, <2>4 DEF BackendTypeOK, Configurations, AClient
<1>2. \A c \in Threads : client[c].at = "idle"
  BY DEF BackendInit, Resting
<1>3. \A e \in Envs : ~Busy(e) /\ Queued(e) = {} /\ taken[e] = NoEntry
  BY <1>2 DEF Busy, BackendInit, Queued
<1>4. Requests /\ \A e \in Envs : Newest(e)
  BY <1>2, <1>3 DEF Requests, Newest, Pushes
<1>5. \A r \in Runs : Signals(r)
  BY StartupInitial DEF BackendInit
<1> QED BY <1>1, <1>4, <1>5 DEF BackendInv

(* A request that is accepted holds an entry that is now the stored one. *)
Requested(c, e, t) ==
  /\ client[c].at = "idle" /\ pushes < MaxPushes
  /\ Holds(c, e, t) /\ Meets(e) /\ stored' = [stored EXCEPT ![e] = t]

LEMMA RequestFacts ==
  ASSUME BackendTypeOK,
         \/ TrcInitialize
         \/ \E c \in Clients, e \in Envs :
              TrcRead(c, e) \/ \E t \in Entries : TrcCreate(c, e, t) \/ TrcUpdate(c, e, t)
  PROVE  /\ toInit' \in Seq(Envs) /\ UNCHANGED <<startupVars, boot, loopVars>>
         /\ \/ UNCHANGED <<stored, client, pushes, raced>>
            \/ \E c \in Threads, e \in Envs, t \in Entries : Requested(c, e, t)
<1>0. /\ stored \in [Envs -> Entries \cup {NoEntry}] /\ toInit \in Seq(Envs)
      /\ Mount \in Threads /\ \A c \in Clients : c \in Threads
  BY DEF BackendTypeOK, Threads
<1>1. ASSUME NEW e \in Envs, stored[e] # NoEntry, UNCHANGED stored
      PROVE  stored[e] \in Entries /\ stored' = [stored EXCEPT ![e] = stored[e]]
  BY <1>0, <1>1
<1>2. CASE TrcInitialize
  <2>1. toInit # <<>> /\ toInit' = Tail(toInit) /\ UNCHANGED <<startupVars, boot, stored, loopVars>>
    BY <1>2 DEF TrcInitialize
  <2>2. toInit' \in Seq(Envs) /\ Head(toInit) \in Envs
    BY <1>0, <2>1
  <2>3. \/ UNCHANGED <<stored, client, pushes, raced>>
        \/ /\ stored[Head(toInit)] # NoEntry
           /\ Holds(Mount, Head(toInit), stored[Head(toInit)]) /\ Meets(Head(toInit))
           /\ Starts(Mount)
    BY <1>2 DEF TrcInitialize
  <2>4. CASE stored[Head(toInit)] # NoEntry /\ ~UNCHANGED <<stored, client, pushes, raced>>
    <3>1. stored[Head(toInit)] \in Entries /\ Requested(Mount, Head(toInit), stored[Head(toInit)])
      BY <1>1, <2>1, <2>2, <2>3, <2>4 DEF Requested, Starts
    <3> QED BY <1>0, <2>1, <2>2, <3>1
  <2> QED BY <2>1, <2>2, <2>3, <2>4
<1>3. ASSUME NEW c \in Clients, NEW e \in Envs, TrcRead(c, e)
      PROVE  /\ UNCHANGED <<startupVars, boot, toInit, loopVars>>
             /\ stored[e] \in Entries /\ Requested(c, e, stored[e])
  <2>1. stored[e] # NoEntry /\ UNCHANGED stored
    BY <1>3 DEF TrcRead
  <2> QED BY <1>1, <1>3, <2>1 DEF TrcRead, Requested, Starts
<1>4. ASSUME NEW c \in Clients, NEW e \in Envs, NEW t \in Entries, TrcCreate(c, e, t) \/ TrcUpdate(c, e, t)
      PROVE  UNCHANGED <<startupVars, boot, toInit, loopVars>> /\ Requested(c, e, t)
  BY <1>4 DEF TrcUpdate, TrcCreate, Requested, Starts
<1> QED BY <1>0, <1>2, <1>3, <1>4

LEMMA RequestKeeps ==
  ASSUME BackendInv, NEW c \in Threads, NEW e \in Envs, NEW t \in Entries, Requested(c, e, t),
         UNCHANGED <<startupVars, boot, loopVars>>, toInit' \in Seq(Envs)
  PROVE  BackendInv'
<1> USE DEF startupVars, mainVars, ctlVars, flowVars, faceVars, loopVars
<1>0. /\ client \in [Threads -> AClient] /\ stored \in [Envs -> Entries \cup {NoEntry}]
      /\ raced \subseteq Envs /\ pushes \in Nat /\ pushes <= MaxPushes /\ MaxPushes \in Nat
  BY BackendAssumption DEF BackendInv, BackendTypeOK, AClient
<1>1. /\ client' = [client EXCEPT ![c] = Pushing(e, t)] /\ stored' = [stored EXCEPT ![e] = t]
      /\ pushes' = pushes + 1 /\ pushes < MaxPushes /\ client[c].at = "idle"
      /\ raced' = IF Busy(e) THEN raced \cup {e} ELSE raced \ {e}
  BY DEF Requested, Holds, Meets
<1>2. BackendTypeOK'
  <2>1. client' \in [Threads -> AClient]
    BY <1>0, <1>1 DEF Pushing, AClient
  <2>2. stored' \in [Envs -> Entries \cup {NoEntry}] /\ raced' \subseteq Envs /\ pushes' \in 0 .. MaxPushes
    BY <1>0, <1>1
  <2>3. StartupTypeOK'
    BY DEF BackendInv, BackendTypeOK, StartupTypeOK
  <2> QED BY <2>1, <2>2, <2>3 DEF BackendInv, BackendTypeOK, AClient
<1>3. /\ client'[c].at = "push" /\ client'[c].env = e /\ client'[c].entry = t
      /\ \A d \in Threads \ {c} : client'[d] = client[d]
  BY <1>0, <1>1 DEF Pushing
<1>4. Requests'
  BY <1>3 DEF BackendInv, Requests
<1>5. \A r \in Runs : Signals(r)'
  BY DEF BackendInv, Signals
<1>6. ASSUME NEW g \in Envs \ raced' PROVE Newest(g)'
  <2>2. Queued(g)' = Queued(g)
    BY DEF Queued
  <2>3. CASE g # e
    <3>0. Newest(g)
      BY <1>1, <1>6, <2>3 DEF BackendInv
    <3>1. stored'[g] = stored[g]
      BY <1>0, <1>1, <2>3
    <3>2. \A d \in Threads : Pushes(d, g)' <=> Pushes(d, g)
      BY <1>1, <1>3, <2>3 DEF Pushes
    <3>3. \A d \in Threads : Pushes(d, g) => client'[d] = client[d]
      BY <1>1, <1>3 DEF Pushes
    <3>4. Busy(g)' <=> Busy(g)
      BY <3>2 DEF Busy, Pushes
    <3> QED BY <2>2, <3>0, <3>1, <3>2, <3>3, <3>4 DEF Newest
  <2>4. CASE g = e
    <3>1. ~Busy(e)
      BY <1>1, <1>6, <2>4
    <3>2. \A d \in Threads : Pushes(d, e)' => d = c
      BY <1>3, <3>1 DEF Pushes, Busy
    <3>3. Busy(e)'
      BY <1>3 DEF Busy
    <3>4. stored'[e] = t
      BY <1>0, <1>1
    <3> QED BY <1>3, <2>4, <3>2, <3>3, <3>4 DEF Newest
  <2> QED BY <2>3, <2>4
<1> QED BY <1>2, <1>4, <1>5, <1>6 DEF BackendInv

LEMMA PushKeeps ==
  ASSUME BackendInv, NEW c \in Threads, PushEnv(c)
  PROVE  BackendInv'
<1> USE DEF startupVars, mainVars, ctlVars, flowVars, faceVars
<1> DEFINE e == client[c].env
           pec == [env |-> e, entry |-> client[c].entry]
<1>0. /\ client \in [Threads -> AClient] /\ queue \in Seq(Configurations)
      /\ Len(queue) \in Nat /\ QueueLength \in Nat /\ Len(queue) < QueueLength
  BY BackendAssumption DEF BackendInv, BackendTypeOK, AClient, Configurations, PushEnv
<1>1. /\ client[c].at = "push" /\ queue' = Append(queue, pec)
      /\ client' = [client EXCEPT ![c] = Resting]
      /\ UNCHANGED <<startupVars, boot, stored, toInit, pushes, raced, taken, loop>>
  BY DEF PushEnv
<1>2. pec \in Configurations
  BY <1>1 DEF BackendInv, Requests, Configurations
<1> HIDE DEF pec
<1>3. /\ queue' \in Seq(Configurations) /\ Len(queue') = Len(queue) + 1 /\ queue'[Len(queue) + 1] = pec
      /\ \A i \in 1 .. Len(queue) : queue'[i] = queue[i]
      /\ DOMAIN queue = 1 .. Len(queue) /\ DOMAIN queue' = 1 .. (Len(queue) + 1)
  BY <1>0, <1>1, <1>2
<1>4. /\ client'[c].at = "idle" /\ \A d \in Threads \ {c} : client'[d] = client[d]
      /\ client' \in [Threads -> AClient]
  BY <1>0, <1>1 DEF Resting, AClient
<1>5. BackendTypeOK'
  <2>1. StartupTypeOK'
    BY <1>1 DEF BackendInv, BackendTypeOK, StartupTypeOK
  <2>2. Len(queue') <= QueueLength
    BY <1>0, <1>3
  <2> QED BY <1>1, <1>3, <1>4, <2>1, <2>2 DEF BackendInv, BackendTypeOK, AClient, Configurations
<1>6. Requests' /\ \A r \in Runs : Signals(r)'
  BY <1>1, <1>4 DEF BackendInv, Requests, Signals
<1>7. ASSUME NEW g \in Envs \ raced' PROVE Newest(g)'
  <2>1. Newest(g)
    BY <1>1, <1>7 DEF BackendInv
  <2>2. \A d \in Threads : Pushes(d, g)' <=> Pushes(d, g) /\ d # c
    BY <1>4 DEF Pushes
  <2>3. \A d \in Threads : Pushes(d, g)' => client'[d] = client[d]
    BY <1>4, <2>2
  <2>4. CASE g # e
    <3>1. Queued(g)' = Queued(g)
      BY <1>3, <2>4 DEF Queued, pec
    <3>2. \A i \in Queued(g) : queue'[i] = queue[i]
      BY <1>3 DEF Queued
    <3>3. Busy(g)' <=> Busy(g)
      BY <2>2, <2>4 DEF Busy, Pushes
    <3> QED BY <1>1, <2>1, <2>2, <2>3, <3>1, <3>2, <3>3 DEF Newest
  <2>5. CASE g = e
    <3>1. Pushes(c, e)
      BY <1>1 DEF Pushes
    <3>2. client[c].entry = stored[e] /\ \A d \in Threads : Pushes(d, e) => c = d
      BY <2>1, <2>5, <3>1 DEF Newest
    <3>3. Queued(g)' = Queued(g) \cup {Len(queue) + 1}
      BY <1>0, <1>3, <2>5 DEF Queued, pec
    <3>4. \A i \in Queued(g) : i < Len(queue) + 1
      BY <1>0, <1>3 DEF Queued
    <3>5. queue'[Len(queue) + 1].entry = stored[e]
      BY <1>3, <3>2 DEF pec
    <3>6. ASSUME NEW i \in Queued(g)', \A j \in Queued(g)' : j <= i PROVE queue'[i].entry = stored'[g]
      <4>1. Len(queue) + 1 <= i
        BY <3>3, <3>6
      <4>2. i = Len(queue) + 1
        <5>1. i \in Queued(g) => i \in Nat /\ i < Len(queue) + 1
          BY <1>0, <1>3, <3>4 DEF Queued
        <5> QED BY <1>0, <3>3, <3>6, <4>1, <5>1
      <4> QED BY <1>1, <2>5, <3>5, <4>2
    <3>7. \A d \in Threads : ~Pushes(d, g)'
      BY <2>2, <2>5, <3>2
    <3> QED BY <3>3, <3>6, <3>7 DEF Newest
  <2> QED BY <2>4, <2>5
<1> QED BY <1>5, <1>6, <1>7 DEF BackendInv

LEMMA TakeKeeps ==
  ASSUME BackendInv, Take
  PROVE  BackendInv'
<1> USE DEF requestVars
<1> DEFINE h == queue[1].env
<1>0. queue \in Seq(Configurations) /\ queue # <<>> /\ Len(queue) \in Nat /\ Len(queue) >= 1
  BY DEF BackendInv, BackendTypeOK, Configurations, Take
<1>1. /\ taken' = [taken EXCEPT ![h] = queue[1].entry] /\ queue' = Tail(queue)
      /\ UNCHANGED <<boot, requestVars>>
      /\ loop' \in {"wait", "stuck"}
      /\ UNCHANGED startupVars \/ \E r \in Runs : Begin(r, h)
  <2>1. Head(queue) = queue[1]
    BY <1>0
  <2>2. loop = "wait"
    BY DEF Take
  <2> QED BY <2>1, <2>2 DEF Take
<1>2. queue[1] \in Configurations /\ h \in Envs /\ queue[1].entry \in Entries
  <2>1. queue[1] \in Configurations
    BY <1>0
  <2> QED BY <2>1 DEF Configurations
<1>3. /\ queue' \in Seq(Configurations) /\ Len(queue') = Len(queue) - 1
      /\ \A i \in 1 .. (Len(queue) - 1) : queue'[i] = queue[i + 1]
      /\ DOMAIN queue = 1 .. Len(queue) /\ DOMAIN queue' = 1 .. (Len(queue) - 1)
  BY <1>0, <1>1
<1>4. taken \in [Envs -> Entries \cup {NoEntry}]
  BY DEF BackendInv, BackendTypeOK
<1>5. StartupTypeOK' /\ \A r \in Runs : Signals(r)'
  <2>1. StartupTypeOK /\ \A r \in Runs : Signals(r)
    BY DEF BackendInv, BackendTypeOK
  <2>2. CASE UNCHANGED startupVars
    BY <2>1, <2>2 DEF startupVars, mainVars, ctlVars, flowVars, faceVars, StartupTypeOK, Signals
  <2>3. CASE \E r \in Runs : Begin(r, h)
    BY <1>2, <2>1, <2>3, BeginKeeps
  <2> QED BY <1>1, <2>2, <2>3
<1>6. BackendTypeOK'
  <2>1. Len(queue') <= QueueLength
    BY <1>0, <1>3, BackendAssumption DEF BackendInv, BackendTypeOK
  <2>2. taken' \in [Envs -> Entries \cup {NoEntry}]
    BY <1>1, <1>2, <1>4
  <2> QED BY <1>1, <1>3, <1>5, <2>1, <2>2 DEF BackendInv, BackendTypeOK, Configurations
<1>7. Requests'
  BY <1>1 DEF BackendInv, Requests
<1>8. ASSUME NEW g \in Envs \ raced' PROVE Newest(g)'
  <2>1. Newest(g)
    BY <1>1, <1>8 DEF BackendInv
  <2>2. /\ \A d \in Threads : Pushes(d, g)' <=> Pushes(d, g)
        /\ Busy(g)' <=> Busy(g)
    BY <1>1 DEF Pushes, Busy
  <2>3. \A i \in Queued(g)' : i \in Nat /\ i + 1 \in Queued(g) /\ queue'[i] = queue[i + 1]
    BY <1>0, <1>3 DEF Queued
  <2>4. \A i \in Queued(g) : i \in Nat /\ (i # 1 => i - 1 \in Queued(g)')
    <3> SUFFICES ASSUME NEW i \in Queued(g) PROVE i \in Nat /\ (i # 1 => i - 1 \in Queued(g)')
      OBVIOUS
    <3>1. i \in 1 .. Len(queue) /\ queue[i].env = g
      BY <1>3 DEF Queued
    <3>2. i # 1 => i - 1 \in 1 .. (Len(queue) - 1) /\ queue'[i - 1] = queue[i]
      BY <1>0, <1>3, <3>1
    <3> QED BY <1>3, <3>1, <3>2 DEF Queued
  <2>5. ASSUME ~Busy(g), NEW i \in Queued(g)', \A j \in Queued(g)' : j <= i
        PROVE  queue'[i].entry = stored'[g]
    <3>1. \A j \in Queued(g) : j <= i + 1
      <4> TAKE j \in Queued(g)
      <4>1. CASE j = 1
        BY <2>3, <4>1
      <4>2. CASE j # 1
        <5>1. j - 1 <= i /\ j \in Nat /\ i \in Nat
          BY <2>3, <2>4, <2>5, <4>2
        <5> QED BY <5>1
      <4> QED BY <4>1, <4>2
    <3>2. queue[i + 1].entry = stored[g]
      BY <2>1, <2>3, <2>5, <3>1 DEF Newest
    <3> QED BY <1>1, <2>3, <3>2
  <2>6. ASSUME ~Busy(g), Queued(g)' = {}, taken'[g] # NoEntry PROVE taken'[g] = stored'[g]
    <3>1. Queued(g) \subseteq {1}
      BY <2>4, <2>6
    <3>2. CASE g = h
      <4>1. Queued(g) = {1}
        BY <1>0, <1>3, <3>1, <3>2 DEF Queued
      <4>2. queue[1].entry = stored[g]
        BY <2>1, <2>6, <4>1 DEF Newest
      <4> QED BY <1>1, <1>2, <1>4, <3>2, <4>2
    <3>3. CASE g # h
      <4>1. Queued(g) = {}
        BY <3>1, <3>3 DEF Queued
      <4>2. taken'[g] = taken[g]
        BY <1>1, <1>4, <3>3
      <4> QED BY <1>1, <2>1, <2>6, <4>1, <4>2 DEF Newest
    <3> QED BY <3>2, <3>3
  <2>7. \A c \in Threads : Pushes(c, g)' => /\ client'[c].entry = stored'[g]
                                            /\ \A d \in Threads : Pushes(d, g)' => c = d
    BY <1>1, <2>1, <2>2 DEF Newest
  <2> QED BY <2>2, <2>5, <2>6, <2>7 DEF Newest
<1> QED BY <1>5, <1>6, <1>7, <1>8 DEF BackendInv

LEMMA BackendKeeps == ASSUME BackendInv, BackendNext PROVE BackendInv'
<1> USE DEF requestVars, loopVars
<1>1. CASE FindVault
  <2>1. /\ boot' \in {"lookup", "served", "lost"} /\ loop' \in {"boot", "wait", "stuck"}
        /\ UNCHANGED <<startupVars, requestVars, queue, taken>>
    BY <1>1 DEF FindVault, BackendInv, BackendTypeOK
  <2>2. StartupTypeOK' /\ \A r \in Runs : Signals(r)'
    BY <2>1 DEF startupVars, mainVars, ctlVars, flowVars, faceVars, BackendInv, BackendTypeOK,
                StartupTypeOK, Signals
  <2>3. BackendTypeOK'
    BY <2>1, <2>2 DEF BackendInv, BackendTypeOK
  <2>4. Requests' /\ \A e \in Envs \ raced' : Newest(e)'
    BY <2>1 DEF BackendInv, Requests, Newest, Pushes, Busy, Queued
  <2> QED BY <2>2, <2>3, <2>4 DEF BackendInv
<1>2. CASE \/ TrcInitialize
           \/ \E c \in Clients, e \in Envs :
                TrcRead(c, e) \/ \E t \in Entries : TrcCreate(c, e, t) \/ TrcUpdate(c, e, t)
  <2>1. /\ toInit' \in Seq(Envs) /\ UNCHANGED <<startupVars, boot, loopVars>>
        /\ \/ UNCHANGED <<stored, client, pushes, raced>>
           \/ \E c \in Threads, e \in Envs, t \in Entries : Requested(c, e, t)
    BY <1>2, RequestFacts DEF BackendInv
  <2>2. CASE UNCHANGED <<stored, client, pushes, raced>>
    <3>1. StartupTypeOK' /\ \A r \in Runs : Signals(r)'
      BY <2>1 DEF startupVars, mainVars, ctlVars, flowVars, faceVars, BackendInv, BackendTypeOK,
                  StartupTypeOK, Signals
    <3>2. BackendTypeOK'
      BY <2>1, <2>2, <3>1 DEF BackendInv, BackendTypeOK
    <3>3. Requests' /\ \A e \in Envs \ raced' : Newest(e)'
      BY <2>1, <2>2 DEF BackendInv, Requests, Newest, Pushes, Busy, Queued
    <3> QED BY <3>1, <3>2, <3>3 DEF BackendInv
  <2> QED BY <2>1, <2>2, RequestKeeps
<1>3. ASSUME NEW r \in Runs, Flowing(r) PROVE BackendInv'
  <2>1. RunNext(r) /\ UNCHANGED <<boot, requestVars, loopVars>>
    BY <1>3 DEF Flowing
  <2>2. StartupTypeOK' /\ \A q \in Runs : Signals(q)'
    BY <2>1, StartupKeeps, SignalsKeep DEF BackendInv, BackendTypeOK
  <2>3. BackendTypeOK'
    BY <2>1, <2>2 DEF BackendInv, BackendTypeOK
  <2>4. Requests' /\ \A e \in Envs \ raced' : Newest(e)'
    BY <2>1 DEF BackendInv, Requests, Newest, Pushes, Busy, Queued
  <2> QED BY <2>2, <2>3, <2>4 DEF BackendInv
<1> QED BY <1>1, <1>2, <1>3, PushKeeps, TakeKeeps DEF BackendNext

LEMMA BackendStutters == ASSUME BackendInv, UNCHANGED backendVars PROVE BackendInv'
<1> USE DEF backendVars, requestVars, loopVars
<1>1. StartupTypeOK' /\ \A r \in Runs : Signals(r)'
  BY DEF startupVars, mainVars, ctlVars, flowVars, faceVars, BackendInv, BackendTypeOK,
         StartupTypeOK, Signals
<1>2. BackendTypeOK'
  BY <1>1 DEF BackendInv, BackendTypeOK
<1>3. Requests' /\ \A e \in Envs \ raced' : Newest(e)'
  BY DEF BackendInv, Requests, Newest, Pushes, Busy, Queued
<1> QED BY <1>1, <1>2, <1>3 DEF BackendInv

-----------------------------------------------------------------------------
(* What the invariant says. *)

LEMMA InvStatesFirst == BackendInv => StatesFirst
<1> SUFFICES ASSUME BackendInv, NEW r \in Runs
             PROVE  /\ (\E f \in Flows : flow[r][f] # "none") =>
                         initWG[r] = 0 /\ controller[r] = "checking" /\ ~alert[r]
                    /\ (\E d \in Doors : face[r][d] # "closed") =>
                         configWG[r] = Nil /\ \A f \in Flows : flow[r][f] # "none"
  BY DEF StatesFirst
<1> QED BY DEF BackendInv, Signals

LEMMA InvLatestStored == BackendInv => LatestStored
BY DEF BackendInv, Newest, Queued, LatestStored
=============================================================================
