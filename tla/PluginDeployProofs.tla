------------------------- MODULE PluginDeployProofs -------------------------
(***************************************************************************)
(* Proofs about PluginDeploy, for any number of environments, requests and *)
(* images, any number of crashes, and whatever may fail.                   *)
(***************************************************************************)
EXTENDS PluginDeploy, TLAPS

LEMMA Constants ==
  /\ NoSha \notin Shas /\ NotFound \notin Shas
  /\ Absent \notin Shas /\ Torn \notin Shas /\ Garbled \notin Shas
  /\ \A r \in Requests : r \in Deployments /\ r \notin Envs
  /\ \A e \in Envs : e \in Deployments /\ e \notin Requests
  /\ FirstShas \subseteq Shas \cup {NoSha}
  /\ MaxCertify \in Nat /\ MaxCrashes \in Nat
  BY DeployAssumption DEF Deployments

-----------------------------------------------------------------------------
(* Type correctness. *)

LEMMA WriteRecordType ==
  ASSUME TypeOK, NEW e \in Envs, NEW s \in Shas, WriteRecord(e, s)
  PROVE  /\ record' \in [Envs -> Shas \cup {NoSha}]
         /\ held' \in [Requests -> SUBSET Shas]
  BY DEF WriteRecord, TypeOK

LEMMA TypeInit == Init => TypeOK
  BY Constants DEF Init, TypeOK, DeploymentStates, Outcomes

LEMMA RestartType ==
  ASSUME TypeOK, Restart, crashes < MaxCrashes, UNCHANGED file
  PROVE  TypeOK'
<1>1. crashes' \in 0 .. MaxCrashes
  BY Constants DEF TypeOK, Restart
<1> QED BY <1>1 DEF TypeOK, Restart, vaultVars, DeploymentStates, Outcomes

(* Every step keeps the types.  A deployment that replies or writes the record  *)
(* has read a sha256, which ShaOK says.                                         *)
LEMMA TypeNext ==
  ASSUME TypeOK, ShaOK, Next
  PROVE  TypeOK'
<1> USE DEF DeploymentStates, Outcomes, vaultVars, requestVars, flowVars, Goto, Becomes
<1>1. ASSUME NEW e \in Envs, NEW s \in Shas, Certify(e, s)
      PROVE  TypeOK'
  <2>1. certified' \in 0 .. MaxCertify
    BY <1>1, Constants DEF TypeOK, Certify
  <2>2. issued' \in [Envs -> SUBSET Shas]
    BY <1>1 DEF TypeOK, Certify
  <2> QED BY <1>1, <2>1, <2>2, WriteRecordType DEF TypeOK, Certify
<1>2. ASSUME NEW r \in Requests, TrcUpdate(r)
      PROVE  TypeOK'
  <2>1. env[r] \in Envs
    BY Constants DEF TypeOK
  <2>2. CASE request' = [request EXCEPT ![r] = "queued"] /\ record[env[r]] # NoSha
             /\ held' = [held EXCEPT ![r] = {record[env[r]]}]
    <3>1. record[env[r]] \in Shas
      BY <2>1, <2>2 DEF TypeOK
    <3> QED BY <1>2, <2>2, <3>1 DEF TypeOK, TrcUpdate
  <2>3. CASE request' = [request EXCEPT ![r] = "refused"] /\ held' = held
    BY <1>2, <2>3 DEF TypeOK, TrcUpdate
  <2> QED BY <1>2, <2>2, <2>3 DEF TrcUpdate
<1>3. ASSUME NEW r \in Requests, Take(r)
      PROVE  TypeOK'
  BY <1>3, Constants DEF TypeOK, Take
<1>4. ASSUME NEW e \in Envs, TrcInitialize(e)
      PROVE  TypeOK'
  BY <1>4, Constants DEF TypeOK, TrcInitialize
<1>5. ASSUME NEW d \in Deployments, Deploy(d)
      PROVE  TypeOK'
  <2>0. env[d] \in Envs
    BY DEF TypeOK
  <2>1. CASE ReadSignature(d)
    <3>1. record[env[d]] \in Shas \cup {NoSha}
      BY <2>0 DEF TypeOK
    <3>2. sha' \in [Deployments -> Shas \cup {NoSha}]
      BY <2>1, <3>1 DEF TypeOK, ReadSignature
    <3>3. outcome' \in [Deployments -> Outcomes] /\ pc' \in [Deployments -> DeploymentStates]
      BY <2>1 DEF TypeOK, ReadSignature, Returns
    <3> QED BY <2>1, <3>2, <3>3 DEF TypeOK, ReadSignature
  <2>2. CASE Compare(d)
    BY <2>2 DEF TypeOK, Compare
  <2>3. CASE Download(d)
    BY <2>3 DEF TypeOK, Download
  <2>4. CASE Open(d)
    BY <2>4 DEF TypeOK, Open
  <2>5. CASE Fill(d)
    <3>1. sha[d] \in Shas
      BY <2>5 DEF ShaOK, Fill
    <3>2. file' \in Shas \cup {Garbled}
      BY <2>5, <3>1 DEF Fill
    <3> QED BY <2>5, <3>2 DEF TypeOK, Fill
  <2>6. CASE SetMode(d)
    BY <2>6 DEF TypeOK, SetMode, Returns
  <2>7. ASSUME NEW from, NEW to \in DeploymentStates, Send(d, from, to),
               from \in {"push", "last"}
        PROVE  TypeOK'
    <3>1. Reply(d) \in Shas \cup {NotFound}
      BY <2>7 DEF ShaOK, Send, Reply
    <3>2. /\ request' \in [Requests -> {"none", "queued", "waiting", "answered", "refused", "lost"}]
          /\ answer' \in [Requests -> Shas \cup {NoSha, NotFound}]
      BY <2>7, <3>1 DEF TypeOK, Send
    <3> QED BY <2>7, <3>2 DEF TypeOK, Send
  <2>8. CASE UpdateRecord(d)
    <3>1. sha[d] \in Shas
      BY <2>8 DEF ShaOK, UpdateRecord
    <3>2. record' \in [Envs -> Shas \cup {NoSha}] /\ held' \in [Requests -> SUBSET Shas]
      <4>1. CASE WriteRecord(env[d], sha[d])
        BY <4>1, <2>0, <3>1, WriteRecordType
      <4>2. CASE UNCHANGED <<record, held>>
        BY <4>2 DEF TypeOK
      <4> QED BY <2>8, <4>1, <4>2 DEF UpdateRecord
    <3> QED BY <2>8, <3>2 DEF TypeOK, UpdateRecord
  <2> QED BY <1>5, <2>1, <2>2, <2>3, <2>4, <2>5, <2>6, <2>7, <2>8
          DEF Deploy, PushPluginSha, PushLast
<1>6. ASSUME NEW d \in Deployments, WriteFails(d)
      PROVE  TypeOK'
  BY <1>6, RestartType DEF WriteFails
<1>7. CASE Crash
  BY <1>7, RestartType DEF Crash
<1> QED BY <1>1, <1>2, <1>3, <1>4, <1>5, <1>6, <1>7 DEF Next

-----------------------------------------------------------------------------
(* What a deployment knows. *)

LEMMA ShaNext ==
  ASSUME TypeOK, ShaOK, RequestOK, RecordIsCertified, Next
  PROVE  ShaOK'
<1> USE DEF vaultVars, requestVars, flowVars, Goto, Becomes
<1>1. ASSUME NEW e \in Envs, NEW s \in Shas, Certify(e, s)
      PROVE  ShaOK'
  <2>1. \A x \in Envs : issued[x] \subseteq issued'[x]
    BY <1>1 DEF TypeOK, Certify
  <2>2. \A d \in Deployments : env[d] \in Envs
    BY DEF TypeOK
  <2> QED BY <1>1, <2>1, <2>2 DEF ShaOK, Certify
<1>2. ASSUME NEW r \in Requests, TrcUpdate(r)
      PROVE  ShaOK'
  BY <1>2 DEF ShaOK, TrcUpdate
<1>3. ASSUME NEW r \in Requests, Take(r)
      PROVE  ShaOK'
  <2>1. pc[r] = "none"
    BY <1>3 DEF RequestOK, Take
  <2> QED BY <1>3, <2>1, Constants DEF TypeOK, ShaOK, Take
<1>4. ASSUME NEW e \in Envs, TrcInitialize(e)
      PROVE  ShaOK'
  BY <1>4, Constants DEF TypeOK, ShaOK, TrcInitialize
<1>5. ASSUME NEW d \in Deployments, Deploy(d)
      PROVE  ShaOK'
  <2>1. CASE ReadSignature(d)
    <3>1. env[d] \in Envs
      BY DEF TypeOK
    <3>2. record[env[d]] # NoSha => record[env[d]] \in Shas /\ record[env[d]] \in issued[env[d]]
      BY <3>1 DEF TypeOK, RecordIsCertified
    <3> QED BY <2>1, <3>2 DEF TypeOK, ShaOK, ReadSignature, Returns
  <2>2. CASE Compare(d)
    BY <2>2 DEF TypeOK, ShaOK, Compare
  <2>3. CASE Download(d)
    BY <2>3 DEF TypeOK, ShaOK, Download
  <2>4. CASE Open(d)
    BY <2>4 DEF TypeOK, ShaOK, Open
  <2>5. CASE Fill(d)
    BY <2>5 DEF TypeOK, ShaOK, Fill
  <2>6. CASE SetMode(d)
    BY <2>6 DEF TypeOK, ShaOK, SetMode, Returns
  <2>7. CASE PushPluginSha(d)
    BY <2>7 DEF TypeOK, ShaOK, PushPluginSha, Send
  <2>8. CASE UpdateRecord(d)
    BY <2>8 DEF TypeOK, ShaOK, UpdateRecord
  <2>9. CASE PushLast(d)
    BY <2>9 DEF TypeOK, ShaOK, PushLast, Send
  <2> QED BY <1>5, <2>1, <2>2, <2>3, <2>4, <2>5, <2>6, <2>7, <2>8, <2>9 DEF Deploy
<1>6. ASSUME Restart
      PROVE  ShaOK'
  BY <1>6 DEF ShaOK, Restart
<1> QED BY <1>1, <1>2, <1>3, <1>4, <1>5, <1>6 DEF Next, Crash, WriteFails

(* A record is written with the sha256 that was certified or read. *)
LEMMA RecordNext ==
  ASSUME TypeOK, ShaOK, RecordIsCertified, Next
  PROVE  RecordIsCertified'
<1>1. ASSUME NEW e \in Envs, NEW s \in Shas, Certify(e, s)
      PROVE  RecordIsCertified'
  BY <1>1 DEF TypeOK, RecordIsCertified, Certify, WriteRecord
<1>2. ASSUME NEW d \in Deployments, UpdateRecord(d), WriteRecord(env[d], sha[d])
      PROVE  RecordIsCertified'
  <2>1. sha[d] \in issued[env[d]] /\ env[d] \in Envs
    BY <1>2, Constants DEF TypeOK, ShaOK, UpdateRecord
  <2> QED BY <1>2, <2>1 DEF TypeOK, RecordIsCertified, UpdateRecord, WriteRecord
<1>3. ASSUME record' = record, issued' = issued
      PROVE  RecordIsCertified'
  BY <1>3 DEF RecordIsCertified
<1>4. ASSUME NEW r \in Requests, TrcUpdate(r) \/ Take(r)
      PROVE  RecordIsCertified'
  BY <1>3, <1>4 DEF TrcUpdate, Take, vaultVars
<1>5. ASSUME NEW d \in Deployments, Deploy(d)
      PROVE  RecordIsCertified'
  BY <1>2, <1>3, <1>5
     DEF Deploy, ReadSignature, Compare, Download, Open, Fill, SetMode, PushPluginSha, Send,
         UpdateRecord, PushLast, vaultVars
<1>6. ASSUME NEW e \in Envs, TrcInitialize(e)
      PROVE  RecordIsCertified'
  BY <1>3, <1>6 DEF TrcInitialize, vaultVars
<1>7. ASSUME Restart
      PROVE  RecordIsCertified'
  BY <1>3, <1>7 DEF Restart, vaultVars
<1> QED BY <1>1, <1>4, <1>5, <1>6, <1>7 DEF Next, Crash, WriteFails

-----------------------------------------------------------------------------
(* What a request is told. *)

(* A record that is written while a request is under way is held for it. *)
LEMMA WriteRecordHeld ==
  ASSUME TypeOK, NEW e \in Envs, NEW s \in Shas, WriteRecord(e, s), NEW r \in Requests
  PROVE  /\ held[r] \subseteq held'[r]
         /\ request[r] \in {"queued", "waiting"} /\ record[env[r]] \in held[r]
              => record'[env[r]] \in held'[r]
<1>1. env[r] \in Envs
  BY Constants DEF TypeOK
<1> QED BY <1>1 DEF TypeOK, WriteRecord

LEMMA RequestNext ==
  ASSUME TypeOK, ShaOK, RequestOK, Next
  PROVE  RequestOK'
<1> USE DEF vaultVars, requestVars, flowVars, Goto, Becomes
<1>1. ASSUME NEW e \in Envs, NEW s \in Shas, Certify(e, s)
      PROVE  RequestOK'
  <2>1. \A r \in Requests :
          /\ held[r] \subseteq held'[r]
          /\ request[r] \in {"queued", "waiting"} /\ record[env[r]] \in held[r]
               => record'[env[r]] \in held'[r]
    BY <1>1, WriteRecordHeld DEF Certify
  <2> QED BY <1>1, <2>1 DEF RequestOK, Certify
<1>2. ASSUME NEW r \in Requests, TrcUpdate(r)
      PROVE  RequestOK'
  BY <1>2, Constants DEF TypeOK, RequestOK, TrcUpdate
<1>3. ASSUME NEW r \in Requests, Take(r)
      PROVE  RequestOK'
  BY <1>3, Constants DEF TypeOK, RequestOK, Take
<1>4. ASSUME NEW e \in Envs, TrcInitialize(e)
      PROVE  RequestOK'
  <2>1. \A r \in Requests : pc'[r] = pc[r]
    BY <1>4, Constants DEF TypeOK, TrcInitialize
  <2> QED BY <1>4, <2>1 DEF RequestOK, TrcInitialize
<1>5. ASSUME NEW d \in Deployments, Deploy(d)
      PROVE  RequestOK'
  <2>0. pc[d] # "none"
    BY <1>5 DEF Deploy, ReadSignature, Compare, Download, Open, Fill, SetMode, PushPluginSha,
                Send, UpdateRecord, PushLast
  <2>1. \A r \in Requests \ {d} : /\ pc'[r] = pc[r] /\ sha'[r] = sha[r]
                                  /\ request'[r] = request[r] /\ answer'[r] = answer[r]
    BY <1>5, Constants
       DEF TypeOK, Deploy, ReadSignature, Compare, Download, Open, Fill, SetMode, PushPluginSha,
           Send, UpdateRecord, PushLast, Returns
  <2>2. d \in Requests => request[d] \in {"waiting", "answered"}
    BY <2>0 DEF RequestOK
  <2>3. /\ pc'[d] # "read"
        /\ d \in Requests => \/ request'[d] = "answered"
                             \/ request'[d] = request[d] /\ answer'[d] = answer[d]
    <3>1. ASSUME NEW from, NEW to \in {"record", "complete"}, Send(d, from, to)
          PROVE  /\ pc'[d] # "read"
                 /\ d \in Requests => request'[d] = "answered"
      BY <3>1, Constants DEF TypeOK, Send
    <3>2. CASE PushPluginSha(d)
      BY <3>1, <3>2 DEF PushPluginSha
    <3>3. CASE PushLast(d)
      BY <3>1, <3>3 DEF PushLast
    <3>4. CASE ReadSignature(d) \/ Compare(d) \/ Download(d) \/ Open(d) \/ Fill(d)
      BY <3>4 DEF TypeOK, ReadSignature, Compare, Download, Open, Fill, Returns
    <3>5. CASE SetMode(d) \/ UpdateRecord(d)
      BY <3>5 DEF TypeOK, SetMode, UpdateRecord, Returns
    <3> QED BY <1>5, <3>2, <3>3, <3>4, <3>5 DEF Deploy
  <2>4. CASE ReadSignature(d)
    <3>1. held' = held /\ record' = record /\ env' = env /\ sha'[d] \in {sha[d], record[env[d]]}
      BY <2>4 DEF TypeOK, ReadSignature
    <3> QED BY <2>1, <2>2, <2>3, <3>1 DEF RequestOK
  <2>5. CASE UpdateRecord(d)
    <3>1. env[d] \in Envs /\ sha[d] \in Shas
      BY <2>5 DEF TypeOK, ShaOK, UpdateRecord
    <3>2. \A r \in Requests :
            /\ held[r] \subseteq held'[r]
            /\ request[r] \in {"queued", "waiting"} /\ record[env[r]] \in held[r]
                 => record'[env[r]] \in held'[r]
      BY <2>5, <3>1, WriteRecordHeld DEF UpdateRecord
    <3>3. env' = env /\ request' = request /\ sha' = sha
      BY <2>5 DEF UpdateRecord
    <3> QED BY <2>1, <2>2, <2>3, <3>2, <3>3 DEF RequestOK
  <2>6. CASE held' = held /\ record' = record /\ env' = env /\ sha' = sha
    BY <2>1, <2>2, <2>3, <2>6 DEF RequestOK
  <2> QED BY <1>5, <2>4, <2>5, <2>6
          DEF Deploy, Compare, Download, Open, Fill, SetMode, PushPluginSha, Send, PushLast
<1>6. ASSUME Restart
      PROVE  RequestOK'
  BY <1>6, Constants DEF RequestOK, Restart
<1> QED BY <1>1, <1>2, <1>3, <1>4, <1>5, <1>6 DEF Next, Crash, WriteFails

LEMMA AnswerNext ==
  ASSUME TypeOK, ShaOK, RequestOK, AnswerIsCurrent, Next
  PROVE  AnswerIsCurrent'
<1> USE DEF vaultVars, requestVars, flowVars, Goto, Becomes
<1>1. ASSUME NEW e \in Envs, NEW s \in Shas, WriteRecord(e, s), answer' = answer
      PROVE  AnswerIsCurrent'
  BY <1>1, WriteRecordHeld DEF AnswerIsCurrent
<1>2. ASSUME answer' = answer, held' = held
      PROVE  AnswerIsCurrent'
  BY <1>2 DEF AnswerIsCurrent
<1>3. ASSUME NEW e \in Envs, NEW s \in Shas, Certify(e, s)
      PROVE  AnswerIsCurrent'
  BY <1>1, <1>3 DEF Certify
<1>4. ASSUME NEW r \in Requests, TrcUpdate(r)
      PROVE  AnswerIsCurrent'
  <2>1. answer[r] \notin Shas
    BY <1>4, Constants DEF RequestOK, TrcUpdate
  <2> QED BY <1>4, <2>1 DEF TypeOK, AnswerIsCurrent, TrcUpdate
<1>5. ASSUME NEW d \in Deployments, NEW from, NEW to, Send(d, from, to),
             from \in {"push", "last"}
      PROVE  AnswerIsCurrent'
  <2>1. CASE d \in Requests
    <3>1. Reply(d) \in Shas => sha[d] \in Shas /\ Reply(d) = sha[d]
      BY Constants DEF Reply
    <3>2. request[d] = "waiting" => (Reply(d) \in Shas => Reply(d) \in held[d])
      BY <2>1, <3>1, Constants DEF RequestOK
    <3> QED BY <1>5, <2>1, <3>2, Constants DEF TypeOK, AnswerIsCurrent, Send
  <2>2. CASE d \notin Requests
    BY <1>2, <1>5, <2>2 DEF Send
  <2> QED BY <2>1, <2>2
<1>6. ASSUME NEW d \in Deployments, UpdateRecord(d)
      PROVE  AnswerIsCurrent'
  <2>1. env[d] \in Envs /\ sha[d] \in Shas
    BY <1>6 DEF TypeOK, ShaOK, UpdateRecord
  <2> QED BY <1>1, <1>2, <1>6, <2>1 DEF UpdateRecord
<1>7. ASSUME NEW d \in Deployments, Deploy(d)
      PROVE  AnswerIsCurrent'
  BY <1>2, <1>5, <1>6, <1>7
     DEF Deploy, ReadSignature, Compare, Download, Open, Fill, SetMode, PushPluginSha, PushLast
<1>8. ASSUME NEW r \in Requests, Take(r)
      PROVE  AnswerIsCurrent'
  BY <1>2, <1>8 DEF Take
<1>9. ASSUME NEW e \in Envs, TrcInitialize(e)
      PROVE  AnswerIsCurrent'
  BY <1>2, <1>9 DEF TrcInitialize
<1>10. ASSUME Restart
       PROVE  AnswerIsCurrent'
  BY <1>2, <1>10 DEF Restart
<1> QED BY <1>3, <1>4, <1>7, <1>8, <1>9, <1>10 DEF Next, Crash, WriteFails

-----------------------------------------------------------------------------
(* What is in the file. *)

(* A step that leaves the file alone disturbs nobody, if those who wrote keep   *)
(* what they wrote, and whoever finds an image in place finds it there.         *)
LEMMA QuietStep ==
  ASSUME WriterOK, InstalledStays, UNCHANGED file,
         \A q \in Deployments :
           /\ pc'[q] = "fill" <=> pc[q] = "fill"
           /\ pc[q] = "fill" => sha'[q] = sha[q]
           /\ outcome[q] = "wrote" => outcome'[q] = "wrote" /\ sha'[q] = sha[q]
           /\ Installed(q)' => file = sha'[q] \/ (Installed(q) /\ sha'[q] = sha[q])
  PROVE  WriterOK' /\ InstalledStays'
<1>1. WriterOK'
  BY DEF WriterOK
<1>2. InstalledStays'
  BY DEF InstalledStays
<1> QED BY <1>1, <1>2

(* The image is put in place over a torn file or over its like, and whoever has *)
(* another one there can name the writer; a garbled file has two.               *)
LEMMA FillStep ==
  ASSUME TypeOK, ShaOK, WriterOK, InstalledStays, NEW d \in Deployments, Fill(d)
  PROVE  WriterOK' /\ InstalledStays'
<1>1. /\ pc[d] = "fill" /\ pc'[d] = "mode" /\ sha' = sha
      /\ outcome'[d] = "wrote"
      /\ \A q \in Deployments \ {d} : pc'[q] = pc[q] /\ outcome'[q] = outcome[q]
  BY DEF TypeOK, Fill, flowVars, Goto, Becomes
<1>2. CASE file' = sha[d]
  <2>1. WriterOK'
    BY <1>1, <1>2 DEF WriterOK
  <2>2. InstalledStays'
    BY <1>1, <1>2 DEF InstalledStays
  <2> QED BY <2>1, <2>2
<1>3. CASE file' = Garbled /\ file \notin {Torn, sha[d]}
  <2>1. PICK x \in Deployments \ {d} : outcome[x] = "wrote" /\ sha[x] # sha[d]
    BY <1>1, <1>3 DEF WriterOK
  <2>2. outcome'[x] = "wrote"
    BY <1>1, <2>1
  <2>3. WriterOK'
    <3>1. SUFFICES ASSUME NEW q \in Deployments, pc'[q] = "fill"
                   PROVE  \E y \in Deployments \ {q} : outcome'[y] = "wrote" /\ sha'[y] # sha'[q]
      BY DEF WriterOK
    <3>2. q # d
      BY <1>1, <3>1
    <3>3. CASE sha[q] # sha[d]
      BY <1>1, <3>2, <3>3
    <3>4. CASE sha[q] = sha[d]
      BY <1>1, <2>1, <2>2, <3>4
    <3> QED BY <3>3, <3>4
  <2>4. InstalledStays'
    <3>1. SUFFICES ASSUME NEW q \in Deployments
                   PROVE  \E y \in Deployments \ {q} : outcome'[y] = "wrote" /\ sha'[y] # sha'[q]
      BY DEF InstalledStays
    <3>2. CASE sha[q] # sha[d]
      BY <1>1, <3>2
    <3>3. CASE sha[q] = sha[d]
      BY <1>1, <2>1, <2>2, <3>3
    <3> QED BY <3>2, <3>3
  <2> QED BY <2>3, <2>4
<1> QED BY <1>2, <1>3 DEF Fill

LEMMA WriterNext ==
  ASSUME TypeOK, ShaOK, RequestOK, WriterOK, InstalledStays, Next
  PROVE  WriterOK' /\ InstalledStays'
<1> USE DEF vaultVars, requestVars, flowVars, Goto, Becomes
<1>1. ASSUME UNCHANGED <<file, sha, outcome>>,
             \A q \in Deployments : pc'[q] = "fill" <=> pc[q] = "fill"
      PROVE  WriterOK' /\ InstalledStays'
  BY <1>1, QuietStep DEF Installed
<1>2. ASSUME NEW e \in Envs, NEW s \in Shas, Certify(e, s)
      PROVE  WriterOK' /\ InstalledStays'
  BY <1>1, <1>2 DEF Certify
<1>3. ASSUME NEW r \in Requests, TrcUpdate(r)
      PROVE  WriterOK' /\ InstalledStays'
  BY <1>1, <1>3 DEF TrcUpdate
<1>4. ASSUME NEW r \in Requests, Take(r)
      PROVE  WriterOK' /\ InstalledStays'
  <2>1. pc[r] = "none"
    BY <1>4 DEF RequestOK, Take
  <2> QED BY <1>1, <1>4, <2>1 DEF TypeOK, Take
<1>5. ASSUME NEW e \in Envs, TrcInitialize(e)
      PROVE  WriterOK' /\ InstalledStays'
  BY <1>1, <1>5 DEF TypeOK, TrcInitialize
<1>6. ASSUME NEW d \in Deployments, Deploy(d)
      PROVE  WriterOK' /\ InstalledStays'
  <2>1. CASE ReadSignature(d)
    <3>1. /\ pc[d] = "read" /\ outcome[d] = "none" /\ pc'[d] # "fill"
          /\ outcome'[d] \in {"none", "elsewhere"} /\ UNCHANGED file
          /\ \A q \in Deployments \ {d} :
                pc'[q] = pc[q] /\ outcome'[q] = outcome[q] /\ sha'[q] = sha[q]
      BY <2>1 DEF TypeOK, ShaOK, ReadSignature, Returns
    <3> QED BY <3>1, QuietStep DEF Installed
  <2>2. CASE Compare(d) \/ Download(d)
    <3>1. /\ pc[d] # "fill" /\ outcome[d] = "none" /\ pc'[d] # "fill" /\ UNCHANGED <<file, sha>>
          /\ outcome'[d] \in {"none", "refused"} \/ file = sha[d]
          /\ \A q \in Deployments \ {d} : pc'[q] = pc[q] /\ outcome'[q] = outcome[q]
      BY <2>2 DEF TypeOK, ShaOK, Compare, Download
    <3> QED BY <3>1, QuietStep DEF Installed
  <2>3. CASE Open(d)
    <3>1. /\ pc'[d] = "fill" /\ outcome'[d] = "none" /\ file' = Torn
      BY <2>3 DEF TypeOK, ShaOK, Open
    <3>2. WriterOK'
      BY <3>1 DEF WriterOK
    <3>3. InstalledStays'
      BY <3>1 DEF InstalledStays, Installed
    <3> QED BY <3>2, <3>3
  <2>4. CASE Fill(d)
    BY <2>4, FillStep
  <2>5. CASE SetMode(d) \/ UpdateRecord(d)
    BY <1>1, <2>5 DEF TypeOK, SetMode, UpdateRecord, Returns
  <2>6. CASE PushPluginSha(d) \/ PushLast(d)
    BY <1>1, <2>6 DEF TypeOK, PushPluginSha, PushLast, Send
  <2> QED BY <1>6, <2>1, <2>2, <2>3, <2>4, <2>5, <2>6 DEF Deploy
<1>7. ASSUME Restart, UNCHANGED file
      PROVE  WriterOK' /\ InstalledStays'
  BY <1>7 DEF Restart, WriterOK, InstalledStays, Installed
<1> QED BY <1>2, <1>3, <1>4, <1>5, <1>6, <1>7 DEF Next, Crash, WriteFails

-----------------------------------------------------------------------------
(* The invariant, and what it implies. *)

LEMMA CoherentInit == Init => Coherent
<1> SUFFICES ASSUME Init PROVE Coherent
  OBVIOUS
<1>1. TypeOK
  BY TypeInit
<1>2. ShaOK /\ WriterOK /\ InstalledStays
  BY DEF Init, ShaOK, WriterOK, InstalledStays, Installed
<1>3. RequestOK
  BY Constants DEF Init, RequestOK
<1>4. RecordIsCertified /\ AnswerIsCurrent
  BY Constants DEF Init, RecordIsCertified, AnswerIsCurrent
<1> QED BY <1>1, <1>2, <1>3, <1>4 DEF Coherent

LEMMA CoherentNext == Coherent /\ [Next]_vars => Coherent'
<1> SUFFICES ASSUME Coherent, [Next]_vars PROVE Coherent'
  OBVIOUS
<1>1. CASE Next
  BY <1>1, TypeNext, ShaNext, RecordNext, RequestNext, AnswerNext, WriterNext DEF Coherent
<1>2. CASE UNCHANGED vars
  BY <1>2 DEF vars, vaultVars, requestVars, flowVars, Coherent, TypeOK, ShaOK, RequestOK,
              WriterOK, RecordIsCertified, AnswerIsCurrent, InstalledStays, Installed
<1> QED BY <1>1, <1>2

(* The conjunction of the properties with what the deployments in progress know *)
(* is an invariant of the plugin tool, TrcUpdate and PluginDeployFlow together. *)
THEOREM CoherentAlways == Spec => []Coherent
  BY CoherentInit, CoherentNext, PTL DEF Spec

(* Every variable of the deployment keeps its type. *)
THEOREM TypeCorrect == Spec => []TypeOK
<1>1. Coherent => TypeOK
  BY DEF Coherent
<1> QED BY <1>1, CoherentAlways, PTL

(* However many deployments write a record back, and whatever they had read, it *)
(* holds only what the tool has certified for its environment.                  *)
THEOREM RecordCertified == Spec => []RecordIsCertified
<1>1. Coherent => RecordIsCertified
  BY DEF Coherent
<1> QED BY <1>1, CoherentAlways, PTL

(* Any number of clients are told what their records held while they waited.    *)
THEOREM AnswersCurrent == Spec => []AnswerIsCurrent
<1>1. Coherent => AnswerIsCurrent
  BY DEF Coherent
<1> QED BY <1>1, CoherentAlways, PTL

(* Any number of deployments write the shared file: an image that was found or  *)
(* written is there, or another writer can be named.                            *)
THEOREM InstalledStaysAlways == Spec => []InstalledStays
<1>1. Coherent => InstalledStays
  BY DEF Coherent
<1> QED BY <1>1, CoherentAlways, PTL
=============================================================================
