------------------------------ MODULE TrcshProofs ------------------------------
(***************************************************************************)
(* Proofs about Trcsh, the hat (CapAuth) and the cache of modifiers        *)
(* (ModifierCache): every type, that a session runs the script it was      *)
(* asked for or a later one, that no command runs before the secrets are   *)
(* there, and that a tool's calls carry the token of its own role.  For    *)
(* any number of deployments and any bound.                                *)
(***************************************************************************)
EXTENDS Trcsh, TLAPS

Tokens == {"pub", "config", "ctoken"}
Labels == Running \cup
  {"none", "start", "agent", "configrole", "caddress", "deployers", "wait", "served",
   "vaddress", "auth", "secrets", "loaded", "idle", "complete", "finished"}

(* Where an agent's CommonMain is before it has started goroutines, and where *)
(* a goroutine is before it has loaded a script.                              *)
Beginning == {"start", "agent", "configrole", "caddress", "deployers"}
Unloaded  == {"none", "served", "vaddress", "auth", "secrets", "idle"}

-----------------------------------------------------------------------------
(* The inductive invariant. *)

Shape ==
  /\ CapTypeOK
  /\ config \in [Keys -> Answers \cup {"nil"}] /\ phase \in 0..4
  /\ at \in [Shells -> Labels] /\ tries \in [Shells -> 0..Queries - 1]
  /\ content \in [Shells -> 0..MaxVersion]
  /\ place \in [Shells -> (1..Pipelines) \X (1..Commands)]
  /\ pipe \in [Shells -> 0..Pipelines]
  /\ runState \in [Shells -> {"started", "resetting", "running"}]
  /\ messages \in [Shells -> 0..MessageRoom] /\ pending \in [Shells -> 0..MaxPending]
  /\ script \in 1..MaxVersion /\ wanted \in [Shells -> 0..MaxVersion]

(* The agent's goroutines run when CommonMain has all the secrets they share, *)
(* and none of them ever asks for a secret of its own; the driver is one      *)
(* goroutine, which asks until what it has is valid.                          *)
AgentSide ==
  agent => /\ at[Main] \in Beginning \cup {"wait"}
           /\ phase = 0 /\ \A k \in Keys : config[k] # "dots"
           /\ at[Main] \in Beginning => \A s \in Deployments : at[s] = "none"
           /\ at[Main] = "wait" => \A k \in Feathers : config[k] = "value"
           /\ at[Main] = "wait" => agentSet
DriverSide ==
  ~agent => /\ \A s \in Deployments : at[s] = "none"
            /\ at[Main] \in {"start", "vaddress", "auth", "secrets", "loaded", "finished"} \cup Running
            /\ at[Main] \in {"loaded"} \cup Running => IsValid

(* A script is dropped before the goroutine waits again, and the one that is   *)
(* loaded is as new as what was wanted; nobody asks for a session of Main.     *)
Scripts ==
  /\ \A s \in Shells : wanted[s] <= script
  /\ wanted[Main] = 0
  /\ \A s \in Deployments : at[s] \in Unloaded => content[s] = 0
  /\ \A s \in Shells : at[s] \in {"loaded"} \cup Running => content[s] >= wanted[s]
  /\ \A s \in Shells : at[s] \in Running => pipe[s] \in {0, place[s][1]}

(* The driver leaves nothing in the cache, and an agent what has its one role. *)
Caching ==
  /\ cache \in Seq({"config"}) /\ Len(cache) <= CacheRoom /\ (~agent => cache = <<>>)
  /\ tool \in [Shells -> {"none"} \cup DriverTools \cup AgentTools]
  /\ \A s \in Deployments : tool[s] \in {"none"} \cup AgentTools
  /\ held \in [Shells -> {<<r, r>> : r \in Tokens \cup {"none"}}]
  /\ alive => \A s \in Deployments : at[s] = "used" => held[s] = <<"config", "config">>

Inv == Shape /\ AgentSide /\ DriverSide /\ Scripts /\ Caching

-----------------------------------------------------------------------------
(* The cache of modifiers. *)

LEMMA PrunedKeeps ==
  ASSUME NEW S, NEW c \in Seq(S)
  PROVE  /\ Pruned(c) \in Seq(S) /\ Len(Pruned(c)) <= Len(c)
         /\ c # <<>> => Pruned(c) # <<>>
         /\ Len(c) > CacheLimit => Len(Cleaned(c, CacheLimit)) = Len(c) - CacheLimit
         /\ Cleaned(c, CacheLimit) \in Seq(S)
<1>1. CASE Len(c) <= CacheLimit
  BY <1>1, CacheAssumption DEF Pruned, Cleaned
<1>2. CASE Len(c) > CacheLimit
  <2>1. Cleaned(c, CacheLimit) = SubSeq(c, CacheLimit + 1, Len(c))
    BY <1>2, CacheAssumption DEF Cleaned
  <2>2. /\ SubSeq(c, CacheLimit + 1, Len(c)) \in Seq(S)
        /\ Len(SubSeq(c, CacheLimit + 1, Len(c))) = Len(c) - CacheLimit
    BY <1>2, CacheAssumption
  <2>3. Len(c) \in Nat /\ Len(c) - CacheLimit >= 1 /\ Len(c) - CacheLimit <= Len(c)
    BY <1>2, CacheAssumption
  <2>4. Pruned(c) = Cleaned(c, CacheLimit)
    BY <1>2 DEF Pruned
  <2>5. Len(<<>>) = 0
    OBVIOUS
  <2>6. Cleaned(c, CacheLimit) # <<>>
    BY <2>1, <2>2, <2>3, <2>5
  <2> QED BY <2>1, <2>2, <2>3, <2>4, <2>6
<1> QED BY <1>1, <1>2, CacheAssumption

(* Taking a modifier gives one of the cache, or a new one. *)
LEMMA TakenKeeps ==
  ASSUME NEW S, cache \in Seq(S), Len(cache) <= CacheRoom, NEW token
  PROVE  /\ Taken \in Seq(S) /\ Len(Taken) <= CacheRoom
         /\ cache # <<>> => NewModifier(token) \in S /\ Len(Taken) < CacheRoom
         /\ cache = <<>> => NewModifier(token) = token /\ Taken = <<>>
BY PrunedKeeps, CacheAssumption DEF Taken, NewModifier

LEMMA ReleasedKeeps ==
  ASSUME NEW S, NEW c \in Seq(S), Len(c) <= CacheRoom, NEW m \in S
  PROVE  Released(c, m) \in Seq(S) /\ Len(Released(c, m)) <= CacheRoom
BY PrunedKeeps, CacheAssumption DEF Released

(* A reset leaves at most one, and nothing of at most one. *)
LEMMA ResetKeeps ==
  ASSUME NEW S, NEW c \in Seq(S), Len(c) <= CacheRoom
  PROVE  /\ ResetModifier(c) \in Seq(S) /\ Len(ResetModifier(c)) <= 1
         /\ Len(c) <= 1 => ResetModifier(c) = <<>>
<1> DEFINE d == IF c # <<>> THEN Tail(Pruned(c)) ELSE c
<1>1. /\ d \in Seq(S) /\ Len(d) <= Len(c) /\ (c # <<>> => Len(d) < Len(c))
  BY PrunedKeeps
<1>2. ResetModifier(c) = Cleaned(d, CacheRoom)
  BY DEF ResetModifier
<1> HIDE DEF d
<1>3. Len(d) > 1 => Cleaned(d, CacheRoom) = SubSeq(d, Len(d) + 1, Len(d))
  <2>1. Len(d) \in Nat /\ Len(c) \in Nat
    BY <1>1
  <2>2. ~(CacheRoom < Len(d))
    BY <1>1, <2>1, CacheAssumption
  <2> QED BY <2>2 DEF Cleaned
<1>4. Len(d) > 1 => Cleaned(d, CacheRoom) = <<>>
  BY <1>1, <1>3
<1>5. Len(d) <= 1 => Cleaned(d, CacheRoom) = d
  BY DEF Cleaned
<1>6. Len(c) \in Nat /\ Len(d) \in Nat /\ (Len(d) = 0 => d = <<>>)
  BY <1>1
<1>7. c = <<>> => d = <<>>
  BY DEF d
<1>8. CASE Len(d) > 1
  BY <1>2, <1>4, <1>8
<1>9. CASE Len(d) <= 1
  <2>1. ResetModifier(c) = d
    BY <1>2, <1>5, <1>9
  <2>2. Len(c) <= 1 => Len(d) = 0 \/ c = <<>>
    BY <1>1, <1>6
  <2> QED BY <1>1, <1>6, <1>7, <1>9, <2>1, <2>2
<1> QED BY <1>6, <1>8, <1>9

-----------------------------------------------------------------------------
(* Initial states. *)

LEMMA InvInit == Init => Inv
<1> SUFFICES ASSUME Init PROVE Inv
  OBVIOUS
<1>1. CapTypeOK
  BY CapAssumption DEF Init, CapInit, CapTypeOK
<1>2. cache = <<>> /\ cache \in Seq({"config"}) /\ Len(cache) <= CacheRoom
  BY CacheAssumption DEF Init, CacheInit
<1>3. config \in [Keys -> Answers \cup {"nil"}] /\ phase \in 0..4
  BY DEF Init, NoConfig
<1>4. Shape
  <2>1. at \in [Shells -> Labels] /\ tries \in [Shells -> 0..Queries - 1]
    BY CapAssumption DEF Init, Labels
  <2>2. /\ content \in [Shells -> 0..MaxVersion] /\ wanted \in [Shells -> 0..MaxVersion]
        /\ script \in 1..MaxVersion /\ pipe \in [Shells -> 0..Pipelines]
        /\ place \in [Shells -> (1..Pipelines) \X (1..Commands)]
    BY TrcshAssumption DEF Init
  <2>3. /\ messages \in [Shells -> 0..MessageRoom] /\ pending \in [Shells -> 0..MaxPending]
        /\ runState \in [Shells -> {"started", "resetting", "running"}]
    BY TrcshAssumption DEF Init
  <2> QED BY <1>1, <1>3, <2>1, <2>2, <2>3 DEF Shape
<1>5. AgentSide /\ DriverSide
  BY TrcshAssumption DEF Init, AgentSide, DriverSide, Shells, NoConfig, Keys, Feathers, Beginning, Running
<1>6. Scripts
  BY TrcshAssumption DEF Init, Scripts, Shells, Unloaded, Running
<1>7. Caching
  <2>1. /\ tool \in [Shells -> {"none"} \cup DriverTools \cup AgentTools]
        /\ held \in [Shells -> {<<r, r>> : r \in Tokens \cup {"none"}}]
    BY DEF Init, NoToken
  <2> QED BY <1>2, <2>1, TrcshAssumption DEF Init, Caching, Shells
<1> QED BY <1>4, <1>5, <1>6, <1>7 DEF Inv

-----------------------------------------------------------------------------
(* Types. *)

(* A query's answers. *)
LEMMA AnswerFacts ==
  ASSUME NEW k \in Keys
  PROVE  /\ PenseFeatherQuery(k) \subseteq Answers \cup {"nil"}
         /\ PenseQuery(k) \subseteq Answers \cup {"nil"}
         /\ \A a \in PenseFeatherQuery(k) : Accepted(a) => a \in {"value", "empty"}
         /\ {"value", "empty"} \subseteq Answers
BY DEF PenseFeatherQuery, PenseQuery, Answers, Accepted

LEMMA BoundFacts ==
  /\ MaxVersion \in Nat \ {0} /\ 0 \in 0..MaxVersion /\ 1 \in 1..MaxVersion
  /\ Pipelines \in Nat \ {0} /\ Commands \in Nat \ {0}
  /\ MessageRoom \in Nat \ {0} /\ MaxPending \in Nat
BY TrcshAssumption

LEMMA PhaseFacts ==
  /\ Len(Phases) = 5
  /\ \A n \in 0..4 : Phases[n + 1] \in Keys
BY DEF Phases, Keys, Feathers

LEMMA HatKeeps == ASSUME CapTypeOK, CapNext PROVE CapTypeOK'
<1>1. CASE ValidateTrcshPathSha \/ Init_FeatherAuth \/ Start
  BY <1>1, CapAssumption DEF CapTypeOK, ValidateTrcshPathSha, Init_FeatherAuth, Start
<1>2. CASE Tap
  BY <1>2, CapAssumption DEF CapTypeOK, Tap
<1>3. ASSUME NEW k \in Keys, Memorize(k) PROVE CapTypeOK'
  BY <1>3 DEF CapTypeOK, Memorize
<1> QED BY <1>1, <1>2, <1>3 DEF CapNext

(* A query that is made again. *)
LEMMA RetryKeeps ==
  ASSUME Shape, NEW s \in Shells, NEW k \in Keys, NEW next \in Labels,
         RetryingPenseFeatherQuery(s, k, next)
  PROVE  /\ config' \in [Keys -> Answers \cup {"nil"}]
         /\ at' \in [Shells -> Labels] /\ tries' \in [Shells -> 0..Queries - 1]
         /\ UNCHANGED <<agent, agentSet, phase>>
         /\ at' = [at EXCEPT ![s] = next] \/ UNCHANGED at
         /\ \/ \E a \in {"value", "empty"} : config' = [config EXCEPT ![k] = a]
            \/ UNCHANGED config
         /\ s # Main => UNCHANGED config
<1>0. /\ config \in [Keys -> Answers \cup {"nil"}]
      /\ at \in [Shells -> Labels] /\ tries \in [Shells -> 0..Queries - 1]
      /\ 0 \in 0..Queries - 1
  BY CapAssumption DEF Shape
<1>1. (tries[s] + 1) % Queries \in 0..Queries - 1
  BY CapAssumption DEF Shape
<1>2. PICK a \in PenseFeatherQuery(k) :
        IF Accepted(a)
        THEN /\ tries' = [tries EXCEPT ![s] = 0]
             /\ \/ /\ s = Main /\ Goto(s, next)
                   /\ config' = [config EXCEPT ![k] = a]
                   /\ UNCHANGED <<agent, alive, agentSet, phase>>
                \/ s # Main /\ a # "empty" /\ Goto(s, next) /\ Live
                \/ s # Main /\ a = "empty" /\ Exit /\ UNCHANGED at
        ELSE /\ tries' = [tries EXCEPT ![s] = (tries[s] + 1) % Queries]
             /\ IF tries[s] + 1 = Queries THEN Exit ELSE Live
             /\ UNCHANGED at
  BY DEF RetryingPenseFeatherQuery
<1>3. CASE Accepted(a)
  <2>1. a \in {"value", "empty"} /\ a \in Answers
    BY <1>3, AnswerFacts
  <2> QED BY <1>0, <1>2, <1>3, <2>1 DEF Goto, Live, Exit, shellVars
<1>4. CASE ~Accepted(a)
  BY <1>0, <1>1, <1>2, <1>4 DEF Exit, Live, shellVars
<1> QED BY <1>3, <1>4

LEMMA ShapeSecrets ==
  ASSUME Shape,
         \/ CommonMain \/ NewAgentConfig \/ AgentSecrets
         \/ \E s \in Shells : EnableDeployer(s) \/ TrcshVAddress(s) \/ Authenticate(s) \/ TrcshAuth(s)
  PROVE  Shape'
<1> USE DEF shellVars, scriptVars, sessionVars, worldVars, capVars, CapTypeOK, shell
<1>0. Main \in Shells /\ "caddress" \in Keys /\ "configrole" \in Keys
  BY DEF Shells, Keys, Feathers
<1>1. CASE CommonMain
  BY <1>0, <1>1 DEF CommonMain, Shape, Goto, Exit, Live, Labels
<1>2. CASE NewAgentConfig
  BY <1>0, <1>2 DEF NewAgentConfig, Shape, Goto, Exit, Live, Labels
<1>3. CASE AgentSecrets
  <2>1. PICK k \in Keys, next \in Labels : RetryingPenseFeatherQuery(Main, k, next)
    BY <1>0, <1>3 DEF AgentSecrets, Labels
  <2> QED BY <1>0, <1>3, <2>1, RetryKeeps DEF AgentSecrets, Shape
<1>4. ASSUME NEW s \in Shells, EnableDeployer(s) \/ Authenticate(s) PROVE Shape'
  BY <1>4 DEF EnableDeployer, Authenticate, Shape, Goto, Exit, Live, Labels
<1>5. ASSUME NEW s \in Shells, TrcshVAddress(s) PROVE Shape'
  <2>1. CASE s = Main
    BY <1>5, <2>1 DEF TrcshVAddress, Shape, Goto, Exit, Live, Labels
  <2>2. CASE s # Main
    BY <1>0, <1>5, <2>2, RetryKeeps DEF TrcshVAddress, Shape, Labels
  <2> QED BY <2>1, <2>2
<1>6. ASSUME NEW s \in Shells, TrcshAuth(s) PROVE Shape'
  <2> DEFINE k == Phases[phase + 1]
             before == IF phase = 0 THEN NoConfig ELSE config
  <2>1. PICK a \in PenseQuery(k) \cup (IF phase = 0 THEN {"value"} ELSE {}) :
          /\ config' = [before EXCEPT ![k] = a]
          /\ phase' = IF a \in {"nil", "empty"} \/ phase + 1 = Len(Phases) THEN 0 ELSE phase + 1
    BY <1>6 DEF TrcshAuth
  <2>2. k \in Keys /\ phase \in 0..4
    BY PhaseFacts DEF Shape
  <2>3. a \in Answers \cup {"nil"}
    BY <2>1, <2>2, AnswerFacts
  <2>4. before \in [Keys -> Answers \cup {"nil"}]
    BY DEF Shape, NoConfig
  <2>5. config' \in [Keys -> Answers \cup {"nil"}] /\ phase' \in 0..4
    BY <2>1, <2>2, <2>3, <2>4, PhaseFacts
  <2> QED BY <1>6, <2>5 DEF TrcshAuth, Shape
<1> QED BY <1>1, <1>2, <1>3, <1>4, <1>5, <1>6

LEMMA ShapeScript ==
  ASSUME Shape,
         \/ GetDeployers \/ DriverAgentConfig \/ InitTrcKubeConfig \/ KubeCtl
         \/ \E s \in Shells : \/ Preload(s) \/ LoadPluginDeploymentScript(s) \/ BeginScript(s)
                              \/ PickTool(s) \/ EndTool(s)
                              \/ TrcPub(s) \/ TrcSub(s) \/ TrcConfig(s) \/ TrcPlgTool(s)
  PROVE  Shape'
<1> USE DEF shellVars, scriptVars, sessionVars, worldVars, capVars, CapTypeOK, shell
<1>0. Main \in Shells
  BY DEF Shells
<1>1. CASE GetDeployers
  <2>1. at' \in [Shells -> Labels]
    BY <1>1 DEF GetDeployers, Shape, Labels
  <2> QED BY <1>1, <2>1 DEF GetDeployers, Shape
<1>2. CASE DriverAgentConfig
  BY <1>2 DEF DriverAgentConfig, Shape, Exit
<1>3. CASE InitTrcKubeConfig
  BY <1>3 DEF InitTrcKubeConfig, Shape, Live
<1>4. CASE KubeCtl
  <2>1. place[Main][1] \in 0..Pipelines
    BY <1>0, TrcshAssumption DEF Shape
  <2> QED BY <1>0, <1>4, <2>1 DEF KubeCtl, Shape, Goto, Exit, Live, Labels, Running
<1>5. ASSUME NEW s \in Shells, Preload(s) PROVE Shape'
  <2>1. at' \in [Shells -> Labels]
    BY <1>5 DEF Preload, Shape, Goto, Labels
  <2>2. content' \in [Shells -> 0..MaxVersion]
    <3>1. \A v \in {0, script} : v \in 0..MaxVersion
      BY BoundFacts DEF Shape
    <3> QED BY <1>5, <3>1 DEF Preload, Shape, Exit
  <2> QED BY <1>5, <2>1, <2>2 DEF Preload, Shape, Exit, Live
<1>6. ASSUME NEW s \in Shells, LoadPluginDeploymentScript(s) PROVE Shape'
  <2>1. at' \in [Shells -> Labels]
    BY <1>6 DEF LoadPluginDeploymentScript, Shape, Goto, Labels
  <2>2. content' \in [Shells -> 0..MaxVersion]
    BY <1>6 DEF LoadPluginDeploymentScript, Shape
  <2> QED BY <1>6, <2>1, <2>2 DEF LoadPluginDeploymentScript, Shape, Live
<1>7. ASSUME NEW s \in Shells, BeginScript(s) PROVE Shape'
  <2>1. at' \in [Shells -> Labels]
    BY <1>7 DEF BeginScript, Shape, Goto, Labels, Running
  <2>2. place' \in [Shells -> (1..Pipelines) \X (1..Commands)] /\ pipe' \in [Shells -> 0..Pipelines]
    BY <1>7, TrcshAssumption DEF BeginScript, Shape
  <2> QED BY <1>7, <2>1, <2>2 DEF BeginScript, Shape, Live
<1>8. ASSUME NEW s \in Shells, PickTool(s) PROVE Shape'
  <2>1. at' \in [Shells -> Labels]
    BY <1>8 DEF PickTool, Shape, Goto, Labels, Running
  <2> QED BY <1>8, <2>1 DEF PickTool, Shape, Exit
<1>9. ASSUME NEW s \in Shells, TrcPub(s) \/ TrcSub(s) \/ TrcConfig(s) \/ TrcPlgTool(s) PROVE Shape'
  <2>1. at' \in [Shells -> Labels]
    BY <1>9 DEF TrcPub, TrcSub, TrcConfig, TrcPlgTool, With, Shape, Goto, Labels, Running
  <2> QED BY <1>9, <2>1 DEF TrcPub, TrcSub, TrcConfig, TrcPlgTool, With, Shape
<1>10. ASSUME NEW s \in Shells, EndTool(s) PROVE Shape'
  <2>1. CASE Goto(s, "sent") /\ Live /\ UNCHANGED <<content, runState, pending>>
    BY <1>10, <2>1 DEF EndTool, Shape, Goto, Live, Labels, Running
  <2>2. CASE Exit /\ UNCHANGED <<at, content, runState, pending>>
    BY <1>10, <2>2 DEF EndTool, Shape, Exit
  <2>3. CASE /\ s # Main /\ pending[s] + 2 <= MaxPending
             /\ Goto(s, "idle") /\ content' = [content EXCEPT ![s] = 0]
             /\ runState' = [runState EXCEPT ![s] = "started"]
             /\ pending' = [pending EXCEPT ![s] = @ + 2]
             /\ Live
    <3>1. content' \in [Shells -> 0..MaxVersion] /\ pending' \in [Shells -> 0..MaxPending]
      BY <2>3, TrcshAssumption DEF Shape
    <3>2. at' \in [Shells -> Labels] /\ runState' \in [Shells -> {"started", "resetting", "running"}]
      BY <2>3 DEF Shape, Goto, Labels
    <3> QED BY <1>10, <2>3, <3>1, <3>2 DEF EndTool, Shape, Live
  <2> QED BY <1>10, <2>1, <2>2, <2>3 DEF EndTool
<1> QED BY <1>1, <1>2, <1>3, <1>4, <1>5, <1>6, <1>7, <1>8, <1>9, <1>10

LEMMA ShapeSession ==
  ASSUME Shape,
         \/ Publish
         \/ \E s \in Shells : \/ NextCommand(s) \/ SendComplete(s) \/ ReRun(s) \/ Deliver(s)
                              \/ Request(s) \/ Controller(s)
  PROVE  Shape'
<1> USE DEF shellVars, scriptVars, sessionVars, worldVars, capVars, CapTypeOK, shell
<1>1. CASE Publish
  BY <1>1, TrcshAssumption DEF Publish, Shape, Live
<1>2. ASSUME NEW s \in Shells, NextCommand(s) PROVE Shape'
  <2>1. messages' \in [Shells -> 0..MessageRoom]
    BY <1>2, TrcshAssumption DEF NextCommand, Shape, Room
  <2>2. at' \in [Shells -> Labels]
    BY <1>2 DEF NextCommand, Shape, Goto, Labels, Running
  <2>3. place[s][1] \in 1..Pipelines /\ place[s][2] \in 1..Commands
    BY DEF Shape
  <2>4. place' \in [Shells -> (1..Pipelines) \X (1..Commands)]
    BY <1>2, <2>3, TrcshAssumption DEF NextCommand, Shape
  <2>5. pipe' \in [Shells -> 0..Pipelines]
    BY <1>2, TrcshAssumption DEF NextCommand, Shape, NewStream
  <2> QED BY <1>2, <2>1, <2>2, <2>4, <2>5 DEF NextCommand, Shape, Live
<1>3. ASSUME NEW s \in Shells, SendComplete(s) \/ Deliver(s) PROVE Shape'
  <2>1. /\ pending[s] \in 0..MaxPending /\ messages[s] \in 0..MessageRoom
        /\ pending \in [Shells -> 0..MaxPending] /\ messages \in [Shells -> 0..MessageRoom]
    BY DEF Shape
  <2>2. pending' \in [Shells -> 0..MaxPending] /\ messages' \in [Shells -> 0..MessageRoom]
    <3>1. CASE SendComplete(s)
      BY <2>1, <3>1, BoundFacts DEF SendComplete
    <3>2. CASE Deliver(s)
      BY <2>1, <3>2, BoundFacts DEF Deliver, Room
    <3> QED BY <1>3, <3>1, <3>2
  <2> QED BY <1>3, <2>2 DEF SendComplete, Deliver, Shape, Live
<1>4. ASSUME NEW s \in Shells, ReRun(s) PROVE Shape'
  <2>1. at' \in [Shells -> Labels]
    BY <1>4 DEF ReRun, Shape, Goto, Labels
  <2>2. content' \in [Shells -> 0..MaxVersion]
    BY <1>4, TrcshAssumption DEF ReRun, Drop, Shape
  <2> QED BY <1>4, <2>1, <2>2 DEF ReRun, Shape, Live
<1>5. ASSUME NEW s \in Shells, Request(s) PROVE Shape'
  <2>1. wanted' \in [Shells -> 0..MaxVersion]
    BY <1>5 DEF Request, Shape
  <2>2. runState' \in [Shells -> {"started", "resetting", "running"}]
    BY <1>5 DEF Request, Shape
  <2> QED BY <1>5, <2>1, <2>2 DEF Request, Shape, Live
<1>6. ASSUME NEW s \in Shells, Controller(s) PROVE Shape'
  <2>1. messages' \in [Shells -> 0..MessageRoom]
    <3>1. messages[s] \in 0..MessageRoom /\ messages \in [Shells -> 0..MessageRoom]
      BY DEF Shape
    <3> QED BY <1>6, <3>1, BoundFacts DEF Controller
  <2>2. runState' \in [Shells -> {"started", "resetting", "running"}]
    BY <1>6 DEF Controller, Shape
  <2> QED BY <1>6, <2>1, <2>2 DEF Controller, Shape, Live
<1> QED BY <1>1, <1>2, <1>3, <1>4, <1>5, <1>6

LEMMA ShapeNext == ASSUME Shape, Next PROVE Shape'
<1>1. CASE Hat
  <2>1. CapTypeOK'
    BY <1>1, HatKeeps DEF Hat, Shape
  <2> QED BY <1>1, <2>1 DEF Hat, Shape, shellVars, scriptVars, sessionVars, worldVars, shell
<1>2. CASE ~Hat
  BY <1>2, ShapeSecrets, ShapeScript, ShapeSession DEF Next, ShellStep
<1> QED BY <1>1, <1>2

-----------------------------------------------------------------------------
(* The agent's side and the driver's. *)

Active == {"loaded", "idle", "complete"} \cup Running

(* A step of the driver, of an agent's goroutine, and of an agent's CommonMain. *)
LEMMA DriverMoves ==
  ASSUME Shape, DriverSide, ~agent,
         NEW l \in {"start", "vaddress", "auth", "secrets", "loaded", "finished"} \cup Running,
         l \in {"loaded"} \cup Running => IsValid,
         at' = [at EXCEPT ![Main] = l] \/ UNCHANGED at,
         UNCHANGED <<agent, config, agentSet>>
  PROVE  AgentSide' /\ DriverSide'
<1>1. IsValid' <=> IsValid
  BY DEF IsValid
<1>2. UNCHANGED at \/ (at'[Main] = l /\ \A s \in Deployments : at'[s] = at[s])
  BY TrcshAssumption DEF Shape, Shells
<1>3. CASE UNCHANGED at
  BY <1>1, <1>3 DEF AgentSide, DriverSide
<1>4. CASE at'[Main] = l /\ \A s \in Deployments : at'[s] = at[s]
  BY <1>1, <1>4 DEF AgentSide, DriverSide
<1> QED BY <1>2, <1>3, <1>4

LEMMA AgentMoves ==
  ASSUME Shape, AgentSide, agent, at[Main] = "wait",
         NEW s \in Deployments, NEW l,
         at' = [at EXCEPT ![s] = l] \/ UNCHANGED at,
         UNCHANGED <<agent, config, phase, agentSet>>
  PROVE  AgentSide' /\ DriverSide'
<1>1. at'[Main] = "wait"
  BY TrcshAssumption DEF Shape, Shells
<1> QED BY <1>1 DEF AgentSide, DriverSide, Beginning

LEMMA AgentBegins ==
  ASSUME Shape, AgentSide, agent, at[Main] \in Beginning,
         NEW l \in {"agent", "configrole"},
         at' = [at EXCEPT ![Main] = l] \/ UNCHANGED at,
         UNCHANGED <<agent, config, phase, agentSet>>
  PROVE  AgentSide' /\ DriverSide'
<1>1. UNCHANGED at \/ (at'[Main] = l /\ \A s \in Deployments : at'[s] = at[s])
  BY TrcshAssumption DEF Shape, Shells
<1>2. CASE UNCHANGED at
  BY <1>2 DEF AgentSide, DriverSide
<1>3. CASE at'[Main] = l /\ \A s \in Deployments : at'[s] = at[s]
  BY <1>3 DEF AgentSide, DriverSide, Beginning
<1> QED BY <1>1, <1>2, <1>3

(* A shell that is active goes on, and what it knows stays. *)
LEMMA MoveKeeps ==
  ASSUME Shape, AgentSide, DriverSide,
         NEW s \in Shells, at[s] \in Active, NEW l \in Active \cup {"finished"},
         s = Main => l \notin {"idle", "complete"},
         at' = [at EXCEPT ![s] = l] \/ UNCHANGED at,
         UNCHANGED <<agent, config, phase, agentSet>>
  PROVE  AgentSide' /\ DriverSide'
<1>1. CASE agent
  <2>1. s \in Deployments
    BY <1>1 DEF AgentSide, Active, Running, Beginning, Shells
  <2>2. at[Main] = "wait"
    BY <1>1, <2>1 DEF AgentSide, Active, Running
  <2> QED BY <1>1, <2>1, <2>2, AgentMoves
<1>2. CASE ~agent
  <2>1. s = Main
    BY <1>2 DEF DriverSide, Active, Running, Shells
  <2>2. IsValid
    BY <1>2, <2>1 DEF DriverSide, Active, Running
  <2> QED BY <1>2, <2>1, <2>2, DriverMoves DEF Active
<1> QED BY <1>1, <1>2

(* Main asks one query after the other, and an agent's goroutine for the      *)
(* address that Main has got before it.                                       *)
LEMMA SidesQuery ==
  ASSUME Shape, AgentSide, DriverSide,
         \/ AgentSecrets
         \/ \E s \in Shells : s # Main /\ TrcshVAddress(s)
  PROVE  AgentSide' /\ DriverSide'
<1>0. "caddress" \in Keys /\ "configrole" \in Keys /\ Main \in Shells
  BY DEF Shells, Keys, Feathers
<1>1. CASE AgentSecrets
  <2>1. at[Main] \in {"configrole", "caddress"}
    BY <1>1 DEF AgentSecrets
  <2>2. agent
    BY <2>1 DEF DriverSide, Running
  <2>3. CASE at[Main] = "configrole"
    <3>1. RetryingPenseFeatherQuery(Main, "configrole", "caddress")
      BY <1>1, <2>3 DEF AgentSecrets
    <3>2. /\ UNCHANGED <<agent, agentSet, phase>>
          /\ at' = [at EXCEPT ![Main] = "caddress"] \/ UNCHANGED at
          /\ \/ \E a \in {"value", "empty"} : config' = [config EXCEPT !["configrole"] = a]
             \/ UNCHANGED config
      BY <1>0, <3>1, RetryKeeps DEF Labels
    <3>3. \A k \in Keys : config'[k] # "dots"
      BY <1>0, <2>2, <3>2 DEF Shape, AgentSide
    <3>4. at'[Main] \in Beginning /\ \A s \in Deployments : at'[s] = at[s]
      BY <1>0, <2>3, <3>2, TrcshAssumption DEF Shape, Beginning, Shells
    <3> QED BY <2>2, <2>3, <3>2, <3>3, <3>4 DEF AgentSide, DriverSide, Beginning
  <2>4. CASE at[Main] = "caddress"
    <3>1. RetryingPenseFeatherQuery(Main, "caddress", "deployers")
      BY <1>1, <2>4 DEF AgentSecrets
    <3>2. /\ UNCHANGED <<agent, agentSet, phase>>
          /\ at' = [at EXCEPT ![Main] = "deployers"] \/ UNCHANGED at
          /\ \/ \E a \in {"value", "empty"} : config' = [config EXCEPT !["caddress"] = a]
             \/ UNCHANGED config
      BY <1>0, <3>1, RetryKeeps DEF Labels
    <3>3. \A k \in Keys : config'[k] # "dots"
      BY <1>0, <2>2, <3>2 DEF Shape, AgentSide
    <3>4. at'[Main] \in Beginning /\ \A s \in Deployments : at'[s] = at[s]
      BY <1>0, <2>4, <3>2, TrcshAssumption DEF Shape, Beginning, Shells
    <3> QED BY <2>2, <2>4, <3>2, <3>3, <3>4 DEF AgentSide, DriverSide, Beginning
  <2> QED BY <2>1, <2>3, <2>4
<1>2. ASSUME NEW s \in Shells, s # Main, TrcshVAddress(s) PROVE AgentSide' /\ DriverSide'
  <2>1. at[s] = "vaddress" /\ RetryingPenseFeatherQuery(s, "caddress", "auth") /\ s \in Deployments
    BY <1>2 DEF TrcshVAddress, Shells
  <2>2. /\ UNCHANGED <<agent, agentSet, phase, config>>
        /\ at' = [at EXCEPT ![s] = "auth"] \/ UNCHANGED at
    BY <1>0, <1>2, <2>1, RetryKeeps DEF Labels
  <2>3. agent /\ at[Main] = "wait"
    BY <2>1 DEF DriverSide, AgentSide
  <2> QED BY <2>1, <2>2, <2>3, AgentMoves
<1> QED BY <1>1, <1>2

LEMMA SidesBegin ==
  ASSUME Shape, AgentSide, DriverSide,
         \/ CommonMain \/ NewAgentConfig \/ GetDeployers \/ TrcshVAddress(Main)
         \/ \E s \in Shells : EnableDeployer(s) \/ Authenticate(s)
  PROVE  AgentSide' /\ DriverSide'
<1> USE DEF Goto, Exit, Live, shellVars
<1>0. Main \in Shells /\ Main \notin Deployments /\ \A s \in Shells : s = Main \/ s \in Deployments
  BY TrcshAssumption DEF Shells
<1>1. CASE CommonMain
  <2>1. CASE agent
    BY <1>1, <2>1, AgentBegins DEF CommonMain, Beginning
  <2>2. CASE ~agent
    BY <1>1, <2>2, DriverMoves DEF CommonMain, Running
  <2> QED BY <2>1, <2>2
<1>2. CASE NewAgentConfig
  <2>1. agent /\ at[Main] \in Beginning
    BY <1>2 DEF NewAgentConfig, DriverSide, Running, Beginning
  <2> QED BY <1>2, <2>1, AgentBegins DEF NewAgentConfig
<1>3. CASE GetDeployers
  <2>1. agent /\ at[Main] = "deployers" /\ agentSet' /\ UNCHANGED <<agent, config, phase>>
    BY <1>3 DEF GetDeployers, DriverSide, Running
  <2>2. at'[Main] \in {"deployers", "wait"} /\ (at'[Main] = "deployers" => UNCHANGED at)
    BY <1>0, <1>3, <2>1 DEF GetDeployers
  <2>3. at'[Main] = "wait" => \A k \in Feathers : config'[k] = "value"
    BY <1>3, <2>1 DEF GetDeployers
  <2> QED BY <2>1, <2>2, <2>3 DEF AgentSide, DriverSide, Beginning
<1>4. CASE TrcshVAddress(Main)
  <2>1. ~agent /\ at[Main] = "vaddress"
    BY <1>4 DEF TrcshVAddress, AgentSide, Beginning
  <2> QED BY <1>4, <2>1, DriverMoves DEF TrcshVAddress, Running
<1>5. ASSUME NEW s \in Shells, EnableDeployer(s) PROVE AgentSide' /\ DriverSide'
  <2>1. agent /\ s \in Deployments /\ at[Main] = "wait"
    BY <1>0, <1>5 DEF EnableDeployer, AgentSide, DriverSide, Running, Beginning
  <2> QED BY <1>5, <2>1, AgentMoves DEF EnableDeployer
<1>6. ASSUME NEW s \in Shells, Authenticate(s) PROVE AgentSide' /\ DriverSide'
  <2>1. (agent => s \in Deployments /\ at[Main] = "wait") /\ (~agent => s = Main)
    BY <1>0, <1>6 DEF Authenticate, AgentSide, DriverSide, Beginning
  <2>2. CASE agent
    BY <1>6, <2>1, <2>2, AgentMoves DEF Authenticate
  <2>3. CASE ~agent
    BY <1>6, <2>1, <2>3, DriverMoves DEF Authenticate, Running
  <2> QED BY <2>2, <2>3
<1> QED BY <1>1, <1>2, <1>3, <1>4, <1>5, <1>6

(* An agent never comes to ask: its goroutines find a valid configuration.     *)
LEMMA SidesAuth ==
  ASSUME Shape, AgentSide, DriverSide, NEW s \in Shells, TrcshAuth(s) \/ Preload(s)
  PROVE  AgentSide' /\ DriverSide'
<1> USE DEF Goto, Exit, Live, shellVars
<1>0. Main \in Shells /\ Main \notin Deployments /\ (s = Main \/ s \in Deployments)
  BY TrcshAssumption DEF Shells
<1>1. at[s] = "secrets"
  BY DEF TrcshAuth, Preload
<1>2. CASE agent
  <2>1. s \in Deployments /\ at[Main] = "wait"
    BY <1>0, <1>1, <1>2 DEF AgentSide, Beginning
  <2>2. agentSet /\ phase = 0 /\ config["caddress"] = "value" /\ config["configrole"] = "value"
    BY <1>2, <2>1 DEF AgentSide, Feathers
  <2>3. IsValid
    BY <2>2 DEF IsValid, Feathers
  <2>4. Preload(s) /\ s # Main
    BY <1>0, <2>1, <2>2, <2>3 DEF TrcshAuth
  <2> QED BY <1>2, <2>1, <2>4, <1>0 DEF Preload, Shape, AgentSide, DriverSide, Beginning
<1>3. CASE ~agent
  <2>1. s = Main
    BY <1>0, <1>1, <1>3 DEF DriverSide
  <2>2. CASE TrcshAuth(Main)
    BY <1>1, <1>3, <2>1, <2>2 DEF TrcshAuth, shell, AgentSide, DriverSide, Running
  <2>3. CASE Preload(Main)
    <3>1. IsValid /\ UNCHANGED <<agent, config, agentSet>>
      BY <2>3 DEF Preload
    <3>2. at' = [at EXCEPT ![Main] = "loaded"] \/ UNCHANGED at
      BY <2>3 DEF Preload
    <3> QED BY <1>3, <3>1, <3>2, DriverMoves
  <2> QED BY <2>1, <2>2, <2>3
<1> QED BY <1>2, <1>3

LEMMA SidesScript ==
  ASSUME Shape, AgentSide, DriverSide,
         \/ DriverAgentConfig \/ InitTrcKubeConfig \/ KubeCtl
         \/ \E s \in Shells : \/ LoadPluginDeploymentScript(s) \/ BeginScript(s)
                              \/ PickTool(s) \/ EndTool(s) \/ NextCommand(s) \/ ReRun(s)
                              \/ TrcPub(s) \/ TrcSub(s) \/ TrcConfig(s) \/ TrcPlgTool(s)
  PROVE  AgentSide' /\ DriverSide'
<1> USE DEF Goto, Exit, Live, shellVars, Active, Running
<1>0. Main \in Shells /\ at[Main] \notin {"idle", "complete"}
  BY DEF Shells, AgentSide, DriverSide, Beginning
<1>1. CASE DriverAgentConfig
  <2>1. ~agent /\ at[Main] = "use" /\ UNCHANGED <<agent, config, at>> /\ (agentSet => agentSet')
    BY <1>1 DEF DriverAgentConfig, shell, AgentSide, Beginning
  <2>2. IsValid
    BY <2>1 DEF DriverSide
  <2>3. IsValid'
    BY <2>1, <2>2, <1>1 DEF DriverAgentConfig, IsValid, Keys, Feathers
  <2> QED BY <2>1, <2>3 DEF AgentSide, DriverSide
<1>2. CASE InitTrcKubeConfig
  BY <1>0, <1>2, MoveKeeps DEF InitTrcKubeConfig, shell
<1>3. CASE KubeCtl
  BY <1>0, <1>3, MoveKeeps DEF KubeCtl
<1>4. ASSUME NEW s \in Shells, LoadPluginDeploymentScript(s) PROVE AgentSide' /\ DriverSide'
  BY <1>0, <1>4, MoveKeeps DEF LoadPluginDeploymentScript
<1>5. ASSUME NEW s \in Shells, BeginScript(s) PROVE AgentSide' /\ DriverSide'
  BY <1>0, <1>5, MoveKeeps DEF BeginScript
<1>6. ASSUME NEW s \in Shells, PickTool(s) PROVE AgentSide' /\ DriverSide'
  BY <1>0, <1>6, MoveKeeps DEF PickTool
<1>7. ASSUME NEW s \in Shells, EndTool(s) PROVE AgentSide' /\ DriverSide'
  <2>1. /\ at[s] = "used" /\ UNCHANGED <<agent, config, phase, agentSet>>
        /\ \/ at' = [at EXCEPT ![s] = "sent"] \/ UNCHANGED at
           \/ s # Main /\ at' = [at EXCEPT ![s] = "idle"]
    BY <1>7 DEF EndTool
  <2> QED BY <1>0, <2>1, MoveKeeps
<1>8. ASSUME NEW s \in Shells, NextCommand(s) PROVE AgentSide' /\ DriverSide'
  <2>1. /\ at[s] = "sent" /\ UNCHANGED <<agent, config, phase, agentSet>>
        /\ \/ at' = [at EXCEPT ![s] = "command"]
           \/ s = Main /\ at' = [at EXCEPT ![s] = "finished"]
           \/ s # Main /\ at' = [at EXCEPT ![s] = "complete"]
    BY <1>8 DEF NextCommand
  <2> QED BY <1>0, <2>1, MoveKeeps
<1>9. ASSUME NEW s \in Shells, ReRun(s) PROVE AgentSide' /\ DriverSide'
  BY <1>0, <1>9, MoveKeeps DEF ReRun
<1>10. ASSUME NEW s \in Shells, TrcPub(s) \/ TrcSub(s) \/ TrcConfig(s) \/ TrcPlgTool(s)
       PROVE AgentSide' /\ DriverSide'
  <2>1. PICK t, token : With(s, t, token)
    BY <1>10 DEF TrcPub, TrcSub, TrcConfig, TrcPlgTool
  <2> QED BY <1>0, <2>1, MoveKeeps DEF With
<1> QED BY <1>1, <1>2, <1>3, <1>4, <1>5, <1>6, <1>7, <1>8, <1>9, <1>10

LEMMA SidesNext == ASSUME Shape, AgentSide, DriverSide, Next PROVE AgentSide' /\ DriverSide'
<1>1. CASE \/ Hat \/ Publish
           \/ \E s \in Shells : SendComplete(s) \/ Deliver(s) \/ Request(s) \/ Controller(s)
  <2>1. UNCHANGED <<agent, config, phase, agentSet, at>>
    BY <1>1 DEF Hat, Publish, SendComplete, Deliver, Request, Controller, Live, shellVars, shell
  <2>2. IsValid' <=> IsValid
    BY <2>1 DEF IsValid
  <2> QED BY <2>1, <2>2 DEF AgentSide, DriverSide
<1>2. ASSUME NEW s \in Shells, TrcshVAddress(s) PROVE AgentSide' /\ DriverSide'
  BY <1>2, SidesQuery, SidesBegin
<1> QED BY <1>1, <1>2, SidesQuery, SidesBegin, SidesAuth, SidesScript DEF Next, ShellStep

-----------------------------------------------------------------------------
(* The script of a session. *)

(* Steps that leave the scripts alone, and do not bring a shell to one. *)
LEMMA QuietKeeps ==
  ASSUME Shape, Scripts, UNCHANGED <<content, place, pipe, wanted, script>>,
         \A s \in Shells : at'[s] # at[s] =>
            /\ at'[s] # "loaded" /\ (at'[s] \in Running => at[s] \in Running)
            /\ at'[s] \in Unloaded => s = Main \/ at[s] \in Unloaded
  PROVE  Scripts'
<1>0. Main \notin Deployments /\ Deployments \subseteq Shells
  BY TrcshAssumption DEF Shells
<1>1. \A s \in Shells : at'[s] \in {"loaded"} \cup Running => at[s] \in {"loaded"} \cup Running
  OBVIOUS
<1>2. \A s \in Shells : at'[s] \in Running => at[s] \in Running
  OBVIOUS
<1>3. \A s \in Deployments : at'[s] \in Unloaded => at[s] \in Unloaded
  BY <1>0
<1> QED BY <1>0, <1>1, <1>2, <1>3 DEF Scripts

LEMMA QuietMove ==
  ASSUME Shape, Scripts, UNCHANGED <<content, place, pipe, wanted, script>>,
         NEW s \in Shells, NEW l,
         at' = [at EXCEPT ![s] = l] \/ UNCHANGED at,
         l # "loaded", l \in Running => at[s] \in Running,
         l \in Unloaded => s = Main \/ at[s] \in Unloaded
  PROVE  Scripts'
<1>1. \A r \in Shells : at'[r] # at[r] => r = s /\ at'[r] = l
  BY DEF Shape
<1> QED BY <1>1, QuietKeeps

LEMMA ScriptsSecrets ==
  ASSUME Shape, AgentSide, DriverSide, Scripts,
         \/ CommonMain \/ NewAgentConfig \/ AgentSecrets \/ GetDeployers
         \/ \E s \in Shells : EnableDeployer(s) \/ TrcshVAddress(s) \/ Authenticate(s) \/ TrcshAuth(s)
  PROVE  Scripts'
<1> USE DEF Goto, shell, scriptVars, worldVars, Unloaded, Running
<1>0. Main \in Shells /\ "caddress" \in Keys /\ "configrole" \in Keys
  BY DEF Shells, Keys, Feathers
<1>1. CASE CommonMain
  BY <1>0, <1>1, QuietMove DEF CommonMain
<1>2. CASE NewAgentConfig
  BY <1>0, <1>2, QuietMove DEF NewAgentConfig
<1>3. CASE AgentSecrets
  <2>1. PICK k \in Keys, next \in {"caddress", "deployers"} : RetryingPenseFeatherQuery(Main, k, next)
    BY <1>0, <1>3 DEF AgentSecrets
  <2>2. at' = [at EXCEPT ![Main] = next] \/ UNCHANGED at
    BY <1>0, <2>1, RetryKeeps DEF Labels
  <2> QED BY <1>0, <1>3, <2>2, QuietMove DEF AgentSecrets
<1>4. CASE GetDeployers
  <2>1. \A s \in Shells : at'[s] # at[s] => at'[s] \in {"wait", "served"}
    BY <1>4 DEF GetDeployers
  <2>2. \A s \in Deployments : at[s] = "none"
    BY <1>4, <1>0 DEF GetDeployers, AgentSide, DriverSide, Beginning, Shells
  <2> QED BY <1>4, <2>1, <2>2, QuietKeeps DEF GetDeployers, Shells
<1>5. ASSUME NEW s \in Shells, EnableDeployer(s) \/ Authenticate(s) PROVE Scripts'
  BY <1>5, QuietMove DEF EnableDeployer, Authenticate
<1>6. ASSUME NEW s \in Shells, TrcshVAddress(s) PROVE Scripts'
  <2>1. at' = [at EXCEPT ![s] = "auth"] \/ UNCHANGED at
    <3>1. CASE s = Main
      BY <1>6, <3>1 DEF TrcshVAddress
    <3>2. CASE s # Main
      BY <1>0, <1>6, <3>2, RetryKeeps DEF TrcshVAddress, Labels
    <3> QED BY <3>1, <3>2
  <2> QED BY <1>6, <2>1, QuietMove DEF TrcshVAddress
<1>7. ASSUME NEW s \in Shells, TrcshAuth(s) PROVE Scripts'
  BY <1>7, QuietKeeps DEF TrcshAuth
<1> QED BY <1>1, <1>2, <1>3, <1>4, <1>5, <1>6, <1>7

LEMMA ScriptsScript ==
  ASSUME Shape, AgentSide, DriverSide, Scripts, NEW s \in Shells,
         \/ Preload(s) \/ LoadPluginDeploymentScript(s) \/ BeginScript(s)
         \/ EndTool(s) \/ NextCommand(s) \/ ReRun(s)
  PROVE  Scripts'
<1> USE DEF Goto, shell, scriptVars, worldVars, Unloaded, Running
<1>0. Main \in Shells /\ Main \notin Deployments /\ (s = Main \/ s \in Deployments)
  BY TrcshAssumption DEF Shells
<1>a. /\ script \in Nat /\ content \in [Shells -> Nat] /\ wanted \in [Shells -> Nat]
      /\ at \in [Shells -> Labels] /\ pipe \in [Shells -> 0..Pipelines]
      /\ place \in [Shells -> (1..Pipelines) \X (1..Commands)]
  BY BoundFacts DEF Shape
<1>1. CASE Preload(s)
  <2>1. CASE s = Main
    <3>1. \/ /\ at' = [at EXCEPT ![Main] = "loaded"]
             /\ \E v \in {0, script} : content' = [content EXCEPT ![Main] = v]
          \/ UNCHANGED <<at, content>>
      BY <1>1, <2>1 DEF Preload
    <3>2. UNCHANGED <<place, pipe, wanted, script>> /\ at[Main] = "secrets"
      BY <1>1, <2>1 DEF Preload
    <3>3. content'[Main] \in Nat /\ at'[Main] \in {"loaded", "secrets"}
      BY <1>0, <1>a, <3>1, <3>2
    <3>4. \A r \in Shells \ {Main} : at'[r] = at[r] /\ content'[r] = content[r]
      BY <1>a, <3>1
    <3> QED BY <1>0, <1>a, <3>2, <3>3, <3>4 DEF Scripts, Shells
  <2>2. CASE s # Main
    BY <1>1, <2>2, QuietMove DEF Preload
  <2> QED BY <2>1, <2>2
<1>2. CASE LoadPluginDeploymentScript(s)
  <2>1. CASE UNCHANGED <<at, content>>
    BY <1>2, <2>1, QuietKeeps DEF LoadPluginDeploymentScript
  <2>2. CASE content' = [content EXCEPT ![s] = script] /\ at' = [at EXCEPT ![s] = "loaded"]
    <3>1. UNCHANGED <<place, pipe, wanted, script>>
      BY <1>2 DEF LoadPluginDeploymentScript
    <3> QED BY <1>0, <1>a, <2>2, <3>1 DEF Scripts
  <2> QED BY <1>2, <2>1, <2>2 DEF LoadPluginDeploymentScript
<1>3. CASE BeginScript(s)
  <2>1. /\ UNCHANGED <<content, wanted, script>> /\ at' = [at EXCEPT ![s] = "command"]
        /\ place' = [place EXCEPT ![s] = <<1, 1>>] /\ pipe' = [pipe EXCEPT ![s] = 0]
        /\ at[s] = "loaded" \/ (at[s] = "idle" /\ content[s] # 0)
    BY <1>3 DEF BeginScript
  <2>2. at[s] = "loaded"
    BY <1>0, <2>1 DEF Scripts, AgentSide, DriverSide, Beginning
  <2>3. /\ at'[s] = "command" /\ pipe'[s] = 0
        /\ \A r \in Shells \ {s} : at'[r] = at[r] /\ place'[r] = place[r] /\ pipe'[r] = pipe[r]
    BY <1>a, <2>1
  <2> QED BY <1>0, <1>a, <2>1, <2>2, <2>3 DEF Scripts, Shells
<1>4. CASE EndTool(s)
  <2>1. at[s] = "used" /\ UNCHANGED <<place, pipe, wanted, script>>
    BY <1>4 DEF EndTool
  <2>2. \/ UNCHANGED content /\ (at' = [at EXCEPT ![s] = "sent"] \/ UNCHANGED at)
        \/ at' = [at EXCEPT ![s] = "idle"] /\ content' = [content EXCEPT ![s] = 0]
    BY <1>4 DEF EndTool
  <2>3. CASE UNCHANGED content /\ (at' = [at EXCEPT ![s] = "sent"] \/ UNCHANGED at)
    BY <2>1, <2>3, QuietMove
  <2>4. CASE at' = [at EXCEPT ![s] = "idle"] /\ content' = [content EXCEPT ![s] = 0]
    BY <1>0, <1>a, <2>1, <2>4 DEF Scripts
  <2> QED BY <2>2, <2>3, <2>4
<1>5. CASE NextCommand(s)
  <2>1. /\ UNCHANGED <<content, wanted, script>> /\ at[s] = "sent"
        /\ \/ /\ \E c : place' = [place EXCEPT ![s] = <<place[s][1], c>>]
              /\ at' = [at EXCEPT ![s] = "command"] /\ UNCHANGED pipe
           \/ /\ \E q : place' = [place EXCEPT ![s] = q]
              /\ at' = [at EXCEPT ![s] = "command"] /\ pipe' = [pipe EXCEPT ![s] = 0]
           \/ /\ at' = [at EXCEPT ![s] = IF s = Main THEN "finished" ELSE "complete"]
              /\ UNCHANGED <<place, pipe>>
    BY <1>5 DEF NextCommand, NewStream
  <2>2. /\ at'[s] \in {"command", "finished", "complete"}
        /\ at'[s] = "command" => pipe'[s] = 0 \/ (pipe'[s] = pipe[s] /\ place'[s][1] = place[s][1])
        /\ \A r \in Shells \ {s} : at'[r] = at[r] /\ place'[r] = place[r] /\ pipe'[r] = pipe[r]
    BY <1>a, <2>1
  <2> QED BY <1>0, <1>a, <2>1, <2>2 DEF Scripts, Shells
<1>6. CASE ReRun(s)
  <2>1. /\ UNCHANGED <<place, pipe, wanted, script>>
        /\ at' = [at EXCEPT ![s] = "idle"] /\ content' = [content EXCEPT ![s] = 0]
    BY <1>6 DEF ReRun, Drop
  <2> QED BY <1>0, <1>a, <2>1 DEF Scripts
<1> QED BY <1>1, <1>2, <1>3, <1>4, <1>5, <1>6

LEMMA ScriptsTools ==
  ASSUME Shape, AgentSide, DriverSide, Scripts,
         \/ DriverAgentConfig \/ InitTrcKubeConfig \/ KubeCtl \/ Publish \/ Hat
         \/ \E s \in Shells : \/ PickTool(s) \/ TrcPub(s) \/ TrcSub(s) \/ TrcConfig(s) \/ TrcPlgTool(s)
                              \/ SendComplete(s) \/ Deliver(s) \/ Request(s) \/ Controller(s)
  PROVE  Scripts'
<1> USE DEF Goto, shell, scriptVars, worldVars, Unloaded, Running
<1>0. Main \in Shells /\ Main \notin Deployments /\ \A s \in Shells : s = Main \/ s \in Deployments
  BY TrcshAssumption DEF Shells
<1>a. /\ script \in Nat /\ content \in [Shells -> Nat] /\ wanted \in [Shells -> Nat]
      /\ at \in [Shells -> Labels] /\ pipe \in [Shells -> 0..Pipelines]
      /\ place \in [Shells -> (1..Pipelines) \X (1..Commands)]
  BY BoundFacts DEF Shape
<1>1. CASE \/ DriverAgentConfig \/ InitTrcKubeConfig \/ Hat
           \/ \E s \in Shells : SendComplete(s) \/ Deliver(s) \/ Controller(s)
  <2>1. UNCHANGED <<at, content, place, pipe, wanted, script>>
    BY <1>1 DEF DriverAgentConfig, InitTrcKubeConfig, Hat, SendComplete, Deliver, Controller
  <2> QED BY <2>1, QuietKeeps
<1>2. CASE KubeCtl
  <2>1. /\ UNCHANGED <<content, place, wanted, script>> /\ at[Main] = "use"
        /\ at' = [at EXCEPT ![Main] = "sent"] \/ UNCHANGED at
        /\ pipe' \in {pipe, [pipe EXCEPT ![Main] = place[Main][1]]}
    BY <1>2 DEF KubeCtl
  <2>2. /\ at'[Main] \in {"use", "sent"} /\ pipe'[Main] \in {pipe[Main], place[Main][1]}
        /\ \A s \in Deployments : at'[s] = at[s] /\ pipe'[s] = pipe[s]
    BY <1>0, <1>a, <2>1 DEF Shells
  <2> QED BY <1>0, <1>a, <2>1, <2>2 DEF Scripts
<1>3. CASE Publish
  <2>1. UNCHANGED <<at, content, place, pipe, wanted>> /\ script' = script + 1
    BY <1>3 DEF Publish
  <2> QED BY <1>a, <2>1 DEF Scripts
<1>4. ASSUME NEW s \in Shells, PickTool(s) PROVE Scripts'
  BY <1>4, QuietMove DEF PickTool
<1>5. ASSUME NEW s \in Shells, TrcPub(s) \/ TrcSub(s) \/ TrcConfig(s) \/ TrcPlgTool(s) PROVE Scripts'
  <2>1. PICK t, token : With(s, t, token)
    BY <1>5 DEF TrcPub, TrcSub, TrcConfig, TrcPlgTool
  <2> QED BY <2>1, QuietMove DEF With
<1>6. ASSUME NEW s \in Shells, Request(s) PROVE Scripts'
  <2>1. /\ UNCHANGED <<at, content, place, pipe, script>> /\ s # Main
        /\ wanted' = [wanted EXCEPT ![s] = IF at[s] = "idle" THEN script ELSE wanted[s]]
    BY <1>6 DEF Request
  <2>2. /\ wanted'[s] \in {wanted[s], script} /\ (at[s] # "idle" => wanted'[s] = wanted[s])
        /\ \A r \in Shells \ {s} : wanted'[r] = wanted[r]
    BY <1>a, <2>1
  <2> QED BY <1>0, <1>a, <2>1, <2>2 DEF Scripts
<1> QED BY <1>1, <1>2, <1>3, <1>4, <1>5, <1>6

LEMMA ScriptsNext == ASSUME Shape, AgentSide, DriverSide, Scripts, Next PROVE Scripts'
BY ScriptsSecrets, ScriptsScript, ScriptsTools DEF Next, ShellStep

-----------------------------------------------------------------------------
(* The cache, and the tokens of the tools. *)

(* Steps of a shell, by what they do to the cache, to its tool and its tokens. *)
LEMMA CacheMove ==
  ASSUME Shape, Caching, UNCHANGED agent, alive' => alive,
         cache' \in Seq({"config"}), Len(cache') <= CacheRoom, ~agent => cache' = <<>>,
         NEW s \in Shells, NEW l, NEW t \in DriverTools \cup AgentTools, NEW r \in Tokens \cup {"none"},
         at' = [at EXCEPT ![s] = l] \/ UNCHANGED at,
         tool' = [tool EXCEPT ![s] = t] \/ UNCHANGED tool, s \in Deployments => t \in AgentTools,
         held' = [held EXCEPT ![s] = <<r, r>>] \/ UNCHANGED held,
         alive' /\ s \in Deployments /\ at'[s] = "used" => held'[s] = <<"config", "config">>
  PROVE  Caching'
<1>0. Deployments \subseteq Shells
  BY DEF Shells
<1>1. tool' \in [Shells -> {"none"} \cup DriverTools \cup AgentTools]
  BY DEF Caching
<1>2. \A d \in Deployments : tool'[d] \in {"none"} \cup AgentTools
  BY <1>0 DEF Caching
<1>3. held' \in [Shells -> {<<q, q>> : q \in Tokens \cup {"none"}}]
  BY DEF Caching
<1>4. ASSUME alive', NEW d \in Deployments, at'[d] = "used" PROVE held'[d] = <<"config", "config">>
  <2>1. CASE d = s
    BY <1>4, <2>1
  <2>2. CASE d # s
    <3>1. at'[d] = at[d] /\ held'[d] = held[d]
      BY <1>0, <2>2 DEF Shape, Caching
    <3> QED BY <1>4, <3>1 DEF Caching
  <2> QED BY <2>1, <2>2
<1> QED BY <1>1, <1>2, <1>3, <1>4 DEF Caching

(* ... and those that take no modifier and change no tool. *)
LEMMA QuietCache ==
  ASSUME Shape, Caching, alive' => alive, UNCHANGED <<agent, cache, tool, held>>,
         \A s \in Deployments : at'[s] = "used" => at[s] = "used"
  PROVE  Caching'
BY DEF Caching

LEMMA QuietCacheMove ==
  ASSUME Shape, Caching, alive' => alive, UNCHANGED <<agent, cache, tool, held>>,
         NEW s \in Shells, NEW l, l # "used", at' = [at EXCEPT ![s] = l] \/ UNCHANGED at
  PROVE  Caching'
BY QuietCache DEF Shape, Shells

(* The shell that runs a script is the agent's goroutine or the driver. *)
LEMMA WhoRuns ==
  ASSUME AgentSide, DriverSide, NEW s \in Shells, at[s] \in Active
  PROVE  (agent => s \in Deployments) /\ (~agent => s = Main)
BY DEF AgentSide, DriverSide, Active, Running, Beginning, Shells

(* What an agent takes from the cache is what it asked for, and the driver     *)
(* finds nothing there.                                                        *)
LEMMA OwnModifier ==
  ASSUME Caching
  PROVE  /\ Taken \in Seq({"config"}) /\ Len(Taken) <= CacheRoom /\ NewModifier("config") = "config"
         /\ ~agent => Taken = <<>> /\ \A r \in Tokens : NewModifier(r) = r
<1>1. cache \in Seq({"config"}) /\ Len(cache) <= CacheRoom
  BY DEF Caching
<1>2. Taken \in Seq({"config"}) /\ Len(Taken) <= CacheRoom
  BY <1>1, TakenKeeps
<1>3. NewModifier("config") = "config"
  BY <1>1, TakenKeeps
<1>4. ASSUME ~agent PROVE Taken = <<>> /\ \A r \in Tokens : NewModifier(r) = r
  BY <1>1, <1>4, TakenKeeps DEF Caching
<1> QED BY <1>2, <1>3, <1>4

LEMMA CachingSecrets ==
  ASSUME Shape, AgentSide, DriverSide, Caching, alive,
         \/ CommonMain \/ NewAgentConfig \/ AgentSecrets \/ GetDeployers
         \/ \E s \in Shells : EnableDeployer(s) \/ TrcshVAddress(s) \/ Authenticate(s)
                              \/ TrcshAuth(s) \/ Preload(s)
  PROVE  Caching'
<1> USE DEF Goto, shell, scriptVars
<1>0. /\ Main \in Shells /\ "caddress" \in Keys /\ "configrole" \in Keys
      /\ Main \notin Deployments /\ Deployments \subseteq Shells
  BY TrcshAssumption DEF Shells, Keys, Feathers
<1>1. CASE CommonMain
  <2>1. UNCHANGED agent
    BY <1>1 DEF CommonMain, Live, Exit, shellVars
  <2> QED BY <1>0, <1>1, <2>1, QuietCacheMove DEF CommonMain
<1>2. CASE NewAgentConfig
  <2>1. UNCHANGED agent
    BY <1>2 DEF NewAgentConfig, Live, Exit, shellVars
  <2> QED BY <1>0, <1>2, <2>1, QuietCacheMove DEF NewAgentConfig
<1>3. CASE AgentSecrets
  <2>1. PICK k \in Keys, next \in {"caddress", "deployers"} : RetryingPenseFeatherQuery(Main, k, next)
    BY <1>0, <1>3 DEF AgentSecrets
  <2>2. (at' = [at EXCEPT ![Main] = next] \/ UNCHANGED at) /\ UNCHANGED agent
    BY <1>0, <2>1, RetryKeeps DEF Labels
  <2> QED BY <1>0, <1>3, <2>2, QuietCacheMove DEF AgentSecrets
<1>4. CASE GetDeployers
  <2>1. agent /\ UNCHANGED <<agent, tool, held>>
    BY <1>4 DEF GetDeployers, DriverSide, Running
  <2>2. \A s \in Deployments : at'[s] = "used" => at[s] = "used"
    BY <1>0, <1>4 DEF GetDeployers, Shape
  <2>3. cache' = cache \/ cache' = Released(Taken, "config")
    BY <1>4, OwnModifier DEF GetDeployers
  <2>4. Released(Taken, "config") \in Seq({"config"}) /\ Len(Released(Taken, "config")) <= CacheRoom
    BY OwnModifier, ReleasedKeeps
  <2> QED BY <2>1, <2>2, <2>3, <2>4 DEF Caching
<1>5. ASSUME NEW s \in Shells, EnableDeployer(s) \/ Authenticate(s) PROVE Caching'
  <2>1. UNCHANGED agent
    BY <1>5 DEF EnableDeployer, Authenticate, Live, Exit, shellVars
  <2> QED BY <1>5, <2>1, QuietCacheMove DEF EnableDeployer, Authenticate
<1>6. ASSUME NEW s \in Shells, TrcshVAddress(s) PROVE Caching'
  <2>1. (at' = [at EXCEPT ![s] = "auth"] \/ UNCHANGED at) /\ UNCHANGED agent
    <3>1. CASE s = Main
      BY <1>6, <3>1 DEF TrcshVAddress, Live, Exit, shellVars
    <3>2. CASE s # Main
      BY <1>0, <1>6, <3>2, RetryKeeps DEF TrcshVAddress, Labels
    <3> QED BY <3>1, <3>2
  <2> QED BY <1>6, <2>1, QuietCacheMove DEF TrcshVAddress
<1>7. ASSUME NEW s \in Shells, TrcshAuth(s) PROVE Caching'
  BY <1>7, QuietCache DEF TrcshAuth
<1>8. ASSUME NEW s \in Shells, Preload(s) PROVE Caching'
  <2>1. UNCHANGED <<agent, tool, held>>
    BY <1>8 DEF Preload, Live, Exit, shellVars
  <2>2. CASE s = Main
    <3>1. ~agent
      BY <1>8, <2>2 DEF Preload, AgentSide, Beginning
    <3>2. cache = <<>> /\ Taken = <<>> /\ cache \in Seq({"config"}) /\ Len(cache) <= CacheRoom
      BY <3>1, OwnModifier DEF Caching
    <3>3. ResetModifier(<<>>) = <<>>
      BY CacheAssumption DEF ResetModifier, Cleaned
    <3>4. UNCHANGED cache /\ (at' = [at EXCEPT ![s] = "loaded"] \/ UNCHANGED at)
      BY <1>8, <2>2, <3>2, <3>3 DEF Preload
    <3> QED BY <2>1, <3>4, QuietCacheMove
  <2>3. CASE s # Main
    BY <1>8, <2>1, <2>3, QuietCacheMove DEF Preload
  <2> QED BY <2>2, <2>3
<1> QED BY <1>1, <1>2, <1>3, <1>4, <1>5, <1>6, <1>7, <1>8

LEMMA CachingScript ==
  ASSUME Shape, AgentSide, DriverSide, Caching, alive, NEW s \in Shells,
         \/ LoadPluginDeploymentScript(s) \/ BeginScript(s) \/ PickTool(s)
         \/ NextCommand(s) \/ SendComplete(s) \/ ReRun(s) \/ Deliver(s) \/ Request(s) \/ Controller(s)
  PROVE  Caching'
<1> USE DEF Goto, shell, scriptVars, Live, shellVars
<1>1. CASE LoadPluginDeploymentScript(s)
  <2>1. /\ UNCHANGED <<agent, tool, held>> /\ at[s] = "idle" /\ cache' \in {cache, Taken}
        /\ at' = [at EXCEPT ![s] = "loaded"] \/ UNCHANGED at
    BY <1>1 DEF LoadPluginDeploymentScript
  <2>2. /\ cache' \in Seq({"config"}) /\ Len(cache') <= CacheRoom /\ (~agent => cache' = <<>>)
    BY <2>1, OwnModifier DEF Caching
  <2>3. \A d \in Deployments : at'[d] = "used" => at[d] = "used"
    BY <2>1 DEF Shape, Shells
  <2> QED BY <2>1, <2>2, <2>3 DEF Caching
<1>2. CASE BeginScript(s) \/ ReRun(s) \/ NextCommand(s)
  <2>1. /\ UNCHANGED <<agent, alive, cache, tool, held>>
        /\ \E l \in {"command", "idle", "finished", "complete"} : at' = [at EXCEPT ![s] = l]
    BY <1>2 DEF BeginScript, ReRun, NextCommand
  <2> QED BY <2>1, QuietCacheMove
<1>3. CASE SendComplete(s) \/ Deliver(s) \/ Request(s) \/ Controller(s)
  <2>1. UNCHANGED <<agent, alive, cache, tool, held, at>>
    BY <1>3 DEF SendComplete, Deliver, Request, Controller
  <2> QED BY <2>1, QuietCache
<1>4. CASE PickTool(s)
  <2>1. /\ UNCHANGED <<agent, held>> /\ at[s] = "command"
        /\ at' = [at EXCEPT ![s] = "use"] \/ UNCHANGED at
        /\ cache' \in {cache, ResetModifier(cache)}
    BY <1>4 DEF PickTool, Exit
  <2>2. PICK t \in DriverTools \cup AgentTools :
          /\ s \in Deployments => t \in AgentTools
          /\ tool' = [tool EXCEPT ![s] = t] \/ UNCHANGED tool
    BY <1>4, TrcshAssumption DEF PickTool, Exit
  <2>3. cache \in Seq({"config"}) /\ Len(cache) <= CacheRoom /\ (~agent => cache = <<>>)
    BY DEF Caching
  <2>4. /\ ResetModifier(cache) \in Seq({"config"}) /\ Len(ResetModifier(cache)) <= 1
        /\ Len(cache) <= 1 => ResetModifier(cache) = <<>>
    BY <2>3, ResetKeeps
  <2>5. /\ cache' \in Seq({"config"}) /\ Len(cache') <= CacheRoom /\ (~agent => cache' = <<>>)
    BY <2>1, <2>3, <2>4, CacheAssumption
  <2>6. at[s] # "used" /\ at'[s] # "used"
    BY <2>1 DEF Shape
  <2> QED BY <2>1, <2>2, <2>5, <2>6, CacheMove
<1> QED BY <1>1, <1>2, <1>3, <1>4

LEMMA CachingTools ==
  ASSUME Shape, AgentSide, DriverSide, Caching, alive,
         \/ DriverAgentConfig \/ InitTrcKubeConfig \/ KubeCtl \/ Publish
         \/ \E s \in Shells : TrcPub(s) \/ TrcSub(s) \/ TrcConfig(s) \/ TrcPlgTool(s)
  PROVE  Caching'
<1> USE DEF Goto, shell, scriptVars, Live, shellVars
<1>0. Main \in Shells /\ Main \notin Deployments
  BY TrcshAssumption DEF Shells
<1>1. CASE DriverAgentConfig
  <2>1. ~agent
    BY <1>1 DEF DriverAgentConfig, AgentSide, Beginning
  <2>2. NewModifier("ctoken") = "ctoken" /\ cache = <<>> /\ Taken = <<>>
    BY <2>1, OwnModifier DEF Caching, Tokens
  <2>3. /\ UNCHANGED <<agent, at, tool>> /\ cache' = <<>>
        /\ held' = [held EXCEPT ![Main] = <<"ctoken", "ctoken">>] \/ UNCHANGED held
    BY <1>1, <2>2 DEF DriverAgentConfig, Exit
  <2>4. held' \in [Shells -> {<<r, r>> : r \in Tokens \cup {"none"}}] /\ \A d \in Deployments : held'[d] = held[d]
    BY <1>0, <2>3 DEF Caching, Tokens, Shells
  <2>5. cache' = cache
    BY <2>2, <2>3
  <2> QED BY <2>3, <2>4, <2>5 DEF Caching
<1>2. CASE InitTrcKubeConfig \/ Publish
  <2>1. UNCHANGED <<agent, alive, cache, tool, held, at>>
    BY <1>2 DEF InitTrcKubeConfig, Publish
  <2> QED BY <2>1, QuietCache
<1>3. CASE KubeCtl
  <2>1. /\ UNCHANGED <<agent, cache, tool, held>>
        /\ at' = [at EXCEPT ![Main] = "sent"] \/ UNCHANGED at
    BY <1>3 DEF KubeCtl, Exit
  <2> QED BY <1>0, <2>1, QuietCacheMove
<1>4. ASSUME NEW s \in Shells, TrcPub(s) \/ TrcSub(s) \/ TrcConfig(s) \/ TrcPlgTool(s) PROVE Caching'
  <2>1. PICK t, token :
          /\ With(s, t, token)
          /\ \/ t = "trcpub" /\ token = NewModifier("pub") /\ cache' = Taken
             \/ t \in {"trcsub", "trcconfig"} /\ token = NewModifier("config") /\ cache' = Taken
             \/ t = "trcplgtool" /\ token = Role(t) /\ UNCHANGED cache
    BY <1>4 DEF TrcPub, TrcSub, TrcConfig, TrcPlgTool
  <2>2. /\ at[s] = "use" /\ tool[s] = t /\ UNCHANGED <<agent, alive, tool>>
        /\ held' = [held EXCEPT ![s] = <<Role(t), token>>] /\ at' = [at EXCEPT ![s] = "used"]
    BY <2>1 DEF With
  <2>3. (agent => s \in Deployments) /\ (~agent => s = Main)
    BY <2>2, WhoRuns DEF Active, Running
  <2>4. s \in Deployments => t \in AgentTools
    BY <2>1, <2>2 DEF Caching, AgentTools
  <2>5. /\ token = Role(t) /\ Role(t) \in Tokens /\ (agent => Role(t) = "config")
    <3>1. CASE t = "trcpub"
      BY <2>1, <2>3, <2>4, <3>1, OwnModifier DEF Role, Tokens, AgentTools
    <3>2. CASE t \in {"trcsub", "trcconfig"}
      BY <2>1, <3>2, OwnModifier DEF Role, Tokens
    <3>3. CASE t = "trcplgtool"
      BY <2>1, <3>3 DEF Role, Tokens
    <3> QED BY <2>1, <3>1, <3>2, <3>3
  <2>6. cache' \in Seq({"config"}) /\ Len(cache') <= CacheRoom /\ (~agent => cache' = <<>>)
    BY <2>1, OwnModifier DEF Caching
  <2>7. alive' /\ s \in Deployments /\ at'[s] = "used" => held'[s] = <<"config", "config">>
    BY <1>0, <2>2, <2>3, <2>5 DEF Caching
  <2>8. t \in DriverTools \cup AgentTools
    BY <2>1 DEF DriverTools, AgentTools
  <2> QED BY <2>2, <2>4, <2>5, <2>6, <2>7, <2>8, CacheMove
<1> QED BY <1>1, <1>2, <1>3, <1>4

LEMMA CachingEnd ==
  ASSUME Shape, AgentSide, DriverSide, Caching, alive, NEW s \in Shells, EndTool(s)
  PROVE  Caching'
<1> USE DEF Goto, Live, shellVars
<1>1. /\ at[s] = "used" /\ UNCHANGED <<agent, tool>> /\ cache' = AfterTool(s)
      /\ held' = [held EXCEPT ![s] = <<"none", "none">>]
      /\ \/ \E l \in {"sent", "idle"} : at' = [at EXCEPT ![s] = l]
         \/ UNCHANGED at /\ ~alive'
  BY DEF EndTool, Exit, NoToken
<1>2. (agent => s \in Deployments) /\ (~agent => s = Main)
  BY <1>1, WhoRuns DEF Active, Running
<1>3. cache \in Seq({"config"}) /\ Len(cache) <= CacheRoom /\ (~agent => cache = <<>>)
  BY DEF Caching
<1>4. ASSUME agent PROVE cache' \in Seq({"config"}) /\ Len(cache') <= CacheRoom
  <2>1. held[s] = <<"config", "config">>
    BY <1>1, <1>2, <1>4 DEF Caching
  <2> DEFINE c == IF Releases(tool[s]) THEN Released(cache, held[s][2]) ELSE cache
  <2>2. c \in Seq({"config"}) /\ Len(c) <= CacheRoom
    <3>1. Released(cache, "config") \in Seq({"config"}) /\ Len(Released(cache, "config")) <= CacheRoom
      BY <1>3, ReleasedKeeps
    <3> QED BY <1>3, <2>1, <3>1
  <2>3. cache' = ResetModifier(c)
    BY <1>1 DEF AfterTool
  <2> HIDE DEF c
  <2>4. cache' \in Seq({"config"}) /\ Len(cache') <= 1
    BY <2>2, <2>3, ResetKeeps
  <2>5. Len(cache') \in Nat /\ 1 <= CacheRoom /\ CacheRoom \in Nat
    BY <2>4, CacheAssumption
  <2>6. Len(cache') <= CacheRoom
    BY <2>4, <2>5
  <2> QED BY <1>4, <2>4, <2>6
<1>5. ASSUME ~agent PROVE cache' = <<>> /\ UNCHANGED cache
  <2> DEFINE S == Tokens \cup {"none"}
             c == IF Releases(tool[s]) THEN Released(cache, held[s][2]) ELSE cache
  <2>1. held[s][2] \in S
    BY DEF Caching
  <2>2. cache = <<>>
    BY <1>3, <1>5
  <2>3. c = <<>> \/ c = <<held[s][2]>>
    <3>1. Released(<<>>, held[s][2]) = <<held[s][2]>>
      <4>1. Len(<<>>) = 0 /\ ~(0 > CacheLimit)
        BY CacheAssumption
      <4>2. Released(<<>>, held[s][2]) = Append(<<>>, held[s][2])
        BY <4>1 DEF Released
      <4>3. \A m : Append(<<>>, m) = <<m>>
        OBVIOUS
      <4> QED BY <4>2, <4>3
    <3> QED BY <2>2, <3>1
  <2>4. c \in Seq(S) /\ Len(c) <= 1
    <3>1. <<held[s][2]>> \in Seq(S) /\ <<>> \in Seq(S)
      BY <2>1
    <3>2. Len(<<held[s][2]>>) = 1 /\ Len(<<>>) = 0
      OBVIOUS
    <3> HIDE DEF c, S
    <3>3. CASE c = <<>>
      BY <3>1, <3>2, <3>3
    <3>4. CASE c = <<held[s][2]>>
      BY <3>1, <3>2, <3>4
    <3> QED BY <2>3, <3>3, <3>4
  <2>5. cache' = ResetModifier(c)
    BY <1>1 DEF AfterTool
  <2> HIDE DEF c, S
  <2>6. Len(c) \in Nat /\ 1 <= CacheRoom /\ CacheRoom \in Nat
    BY <2>4, CacheAssumption
  <2>7. Len(c) <= CacheRoom
    BY <2>4, <2>6
  <2>8. ResetModifier(c) = <<>>
    BY <2>4, <2>7, ResetKeeps
  <2> QED BY <2>2, <2>5, <2>8
<1>6. cache' \in Seq({"config"}) /\ Len(cache') <= CacheRoom /\ (~agent => cache' = <<>>)
  <2>1. CASE agent
    BY <1>4, <2>1
  <2>2. CASE ~agent
    BY <1>3, <1>5, <2>2
  <2> QED BY <2>1, <2>2
<1>7. ~(alive' /\ at'[s] = "used")
  BY <1>1 DEF Shape
<1>8. UNCHANGED tool \/ tool' = [tool EXCEPT ![s] = "trcconfig"]
  BY <1>1
<1> QED BY <1>1, <1>6, <1>7, <1>8, CacheMove DEF AgentTools

LEMMA CachingNext == ASSUME Shape, AgentSide, DriverSide, Caching, Next PROVE Caching'
<1>1. CASE Hat
  BY <1>1 DEF Hat, Caching, shellVars, shell, scriptVars
<1>2. CASE ~Hat
  BY <1>2, CachingSecrets, CachingScript, CachingTools, CachingEnd DEF Next, ShellStep
<1> QED BY <1>1, <1>2

-----------------------------------------------------------------------------
(* The theorems. *)

LEMMA InvNext == ASSUME Inv, [Next]_vars PROVE Inv'
<1>1. CASE Next
  BY <1>1, ShapeNext, SidesNext, ScriptsNext, CachingNext DEF Inv
<1>2. CASE UNCHANGED vars
  <2> USE <1>2 DEF vars, shellVars, scriptVars, sessionVars, worldVars, shell
  <2>1. Shape'
    BY DEF Inv, Shape, CapTypeOK, capVars
  <2>2. IsValid' <=> IsValid
    BY DEF IsValid
  <2>3. AgentSide' /\ DriverSide'
    BY <2>2 DEF Inv, AgentSide, DriverSide
  <2>4. Scripts' /\ Caching'
    BY DEF Inv, Scripts, Caching
  <2> QED BY <2>1, <2>3, <2>4 DEF Inv
<1> QED BY <1>1, <1>2

LEMMA InvAlways == Spec => []Inv
BY InvInit, InvNext, PTL DEF Spec

(* The hat, the secrets, the cache, the scripts and the sessions have the      *)
(* types they are declared with: the cache never holds more modifiers than     *)
(* its channel has room for, and the channel of a session never more messages. *)
THEOREM TrcshTypeCorrect == Spec => []TypeOK
<1>1. Inv => TypeOK
  <2> SUFFICES ASSUME Inv PROVE TypeOK
    OBVIOUS
  <2> USE DEF Inv
  <2>1. cache \in Seq({"pub", "config", "ctoken"})
    <3>1. \A c \in Seq({"config"}) : c \in Seq({"pub", "config", "ctoken"})
      OBVIOUS
    <3> QED BY <3>1 DEF Caching
  <2>2. phase \in 0..Len(Phases)
    BY PhaseFacts DEF Shape
  <2>3. \A s \in Shells : /\ messages[s] \in 0..MessageRoom /\ pending[s] \in 0..MaxPending
                          /\ tries[s] \in 0..Queries - 1
                          /\ place[s] \in (1..Pipelines) \X (1..Commands)
    BY DEF Shape
  <2> QED BY <2>1, <2>2, <2>3 DEF TypeOK, Shape, Caching
<1> QED BY <1>1, InvAlways, PTL

(* A session runs the script vault held when it was asked for, or a later one, *)
(* and a command of a pipeline reads the output of its own pipeline: the       *)
(* script is dropped on every way back to the waiting goroutine.               *)
THEOREM SessionsRunFreshScripts == Spec => []FreshInput
<1>1. Inv => FreshInput
  BY DEF Inv, Scripts, FreshInput
<1> QED BY <1>1, InvAlways, PTL

(* No command of the driver or of an agent's goroutine runs before the secrets *)
(* it needs are there, although an agent's goroutines share a configuration    *)
(* that CommonMain has filled; and an agent never takes the placeholder.       *)
THEOREM SecretsComeFirst == Spec => []SecretsFirst
<1>1. Inv => SecretsFirst
  <2> SUFFICES ASSUME Inv PROVE SecretsFirst
    OBVIOUS
  <2> USE DEF Inv
  <2>1. ASSUME NEW s \in Shells, at[s] \in Running PROVE IsValid
    <3>1. (agent => s \in Deployments) /\ (~agent => s = Main)
      BY <2>1, WhoRuns DEF Active
    <3>2. CASE agent
      <4>1. at[Main] = "wait"
        BY <2>1, <3>1, <3>2 DEF AgentSide, Running
      <4> QED BY <3>2, <4>1 DEF AgentSide, IsValid, Feathers
    <3>3. CASE ~agent
      BY <2>1, <3>1, <3>3 DEF DriverSide
    <3> QED BY <3>2, <3>3
  <2> QED BY <2>1 DEF SecretsFirst, AgentSide
<1> QED BY <1>1, InvAlways, PTL

(* A tool's calls to vault carry the token of its own role: every tool of the  *)
(* driver is between two resets of the cache, and an agent has one role.       *)
THEOREM ToolsUseOwnToken == Spec => []OwnToken
<1>1. Inv => OwnToken
  BY DEF Inv, Caching, OwnToken
<1> QED BY <1>1, InvAlways, PTL
=============================================================================
