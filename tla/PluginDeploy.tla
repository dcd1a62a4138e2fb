---------------------------- MODULE PluginDeploy ----------------------------
(***************************************************************************)
(* How the carrier plugin puts the image of another plugin into the plugin *)
(* directory of its vault host.  The plugin tool certifies an image by     *)
(* writing its sha256 into the plugin's Certify record, one record for     *)
(* each environment.  A deployment (PluginDeployFlow, one goroutine) reads *)
(* the record, compares the file with it, downloads and writes the image   *)
(* where they differ, and writes the record again.  The carrier starts one *)
(* for every environment when it comes up, and one for every request       *)
(* (TrcUpdate with a plugin), which waits for the sha256 on a channel.     *)
(*                                                                         *)
(* One plugin of type vault is followed: two plugins share neither file    *)
(* nor record.  All environments of a host share the file.                 *)
(***************************************************************************)
EXTENDS Naturals, FiniteSets

CONSTANTS
  Envs,         \* the environments this carrier has tokens for
  Requests,     \* bound: calls of TrcUpdate for the plugin, each made once
  Shas,         \* sha256s of images of the plugin
  FirstShas,    \* what records and file may hold when the carrier first comes up
  NoSha,        \* no sha256: not certified, not answered, not read
  NotFound,     \* the answer to a request this instance does not serve
  Absent,       \* there is no file
  Torn,         \* the file has been opened for writing and has no whole image
  Garbled,      \* the file holds parts of two images
  Errors,       \* what may go wrong in this instance
  MaxCertify,   \* bound: certifications by the plugin tool
  MaxCrashes    \* bound: ends of the carrier process

\* config: ProcessPluginEnvConfig refuses.  read: the record or its modifier
\* cannot be had, or lacks an entry.  instance: another host's plugin.  download:
\* no image of that sha256.  write, mode: WriteFile; Open or Chmod after it.
\* record: the record is not written.
ErrorKinds == {"input", "config", "read", "instance", "download", "write", "mode", "record"}

Deployments == Requests \cup Envs

ASSUME DeployAssumption ==
  /\ Requests \cap Envs = {}
  /\ Errors \subseteq ErrorKinds
  /\ MaxCertify \in Nat /\ MaxCrashes \in Nat
  /\ {NoSha, NotFound, Absent, Torn, Garbled} \cap Shas = {}
  /\ NoSha # NotFound
  /\ FirstShas \subseteq Shas \cup {NoSha}
  /\ Cardinality({Absent, Torn, Garbled}) = 3

VARIABLES
  record,    \* trcsha256 in the Certify record of each environment
  issued,    \* history: what the tool has certified for each environment
  file,      \* what /etc/opt/vault/plugins/<plugin> holds
  request,   \* where each call of TrcUpdate is
  env,       \* the environment of each deployment
  answer,    \* the sha256 a request was answered with
  held,      \* history: what the record held since the request was made
  pc,        \* where each deployment is
  sha,       \* trcsha256 of vaultPluginSignature
  outcome,   \* what the deployment found or did
  certified, \* certifications by the tool so far
  crashes    \* ends of the carrier process so far

vaultVars   == <<record, issued, certified>>
requestVars == <<request, answer, held>>
flowVars    == <<env, pc, sha, outcome>>
vars == <<vaultVars, file, requestVars, flowVars, crashes>>

Outcomes == {"none", "present", "wrote", "refused", "elsewhere"}
DeploymentStates ==
  {"none", "read", "compare", "download", "open", "fill", "mode", "push", "record",
   "last", "complete", "returned"}

Init ==
  /\ record \in [Envs -> FirstShas]
  /\ issued = [e \in Envs |-> {record[e]} \ {NoSha}]
  /\ file \in (FirstShas \ {NoSha}) \cup {Absent}
  /\ request = [r \in Requests |-> "none"]
  /\ answer = [r \in Requests |-> NoSha] /\ held = [r \in Requests |-> {}]
  /\ env \in [Deployments -> Envs] /\ \A e \in Envs : env[e] = e
  /\ pc = [d \in Deployments |-> "none"]
  /\ sha = [d \in Deployments |-> NoSha]
  /\ outcome = [d \in Deployments |-> "none"]
  /\ certified = 0 /\ crashes = 0

Goto(d, s) == pc' = [pc EXCEPT ![d] = s]
Becomes(d, o) == outcome' = [outcome EXCEPT ![d] = o]

\* The record of e becomes s; a request that is under way notices.
WriteRecord(e, s) ==
  /\ record' = [record EXCEPT ![e] = s]
  /\ held' = [r \in Requests |->
                IF request[r] \in {"queued", "waiting"} /\ env[r] = e
                  THEN held[r] \cup {s} ELSE held[r]]

-----------------------------------------------------------------------------
(* The plugin tool. *)

\* -certify: the image was found in the registry, or is taken on trust.
Certify(e, s) ==
  /\ certified < MaxCertify
  /\ certified' = certified + 1
  /\ WriteRecord(e, s)
  /\ issued' = [issued EXCEPT ![e] = @ \cup {s}]
  /\ UNCHANGED <<file, request, answer, flowVars, crashes>>

-----------------------------------------------------------------------------
(* TrcUpdate for a plugin, and the loop that takes what it has queued. *)

\* confirmInput merges the request into the stored entry; an entry that cannot be
\* decoded, or an address that is not a supported endpoint, ends the request.
Unconfirmed == "input" \in Errors

\* A record without a sha256 is refused at once.
TrcUpdate(r) ==
  /\ request[r] = "none"
  /\ \/ /\ record[env[r]] # NoSha
        /\ request' = [request EXCEPT ![r] = "queued"]
        /\ held' = [held EXCEPT ![r] = {record[env[r]]}]
     \/ /\ Unconfirmed \/ record[env[r]] = NoSha \/ "read" \in Errors
        /\ request' = [request EXCEPT ![r] = "refused"]
        /\ UNCHANGED held
  /\ UNCHANGED <<vaultVars, file, answer, flowVars, crashes>>

\* The loop starts the deployment in a goroutine of its own, or logs why not.
Take(r) ==
  /\ request[r] = "queued"
  /\ request' = [request EXCEPT ![r] = "waiting"]
  /\ \/ Goto(r, "read")
     \/ "config" \in Errors /\ Goto(r, "returned")
  /\ UNCHANGED <<vaultVars, file, answer, held, env, sha, outcome, crashes>>

\* TrcInitialize queues every environment once, and the loop deploys it.
TrcInitialize(e) ==
  /\ pc[e] = "none"
  /\ \/ Goto(e, "read")
     \/ "config" \in Errors /\ Goto(e, "returned")
  /\ UNCHANGED <<vaultVars, file, requestVars, env, sha, outcome, crashes>>

-----------------------------------------------------------------------------
(* PluginDeployFlow. *)

\* An early return: nothing is sent to the client.
Returns(d) == Goto(d, "returned")

\* Mutant of ReadSignature: the image of any other environment will do.
ReadAnyEnvironment(d) ==
  /\ pc[d] = "read"
  /\ \E e \in Envs : record[e] # NoSha /\ sha' = [sha EXCEPT ![d] = record[e]]
  /\ Goto(d, "compare")
  /\ UNCHANGED <<vaultVars, file, requestVars, env, outcome, crashes>>

\* Mutant of ReadSignature: a record without a sha256 is taken for one.
ReadUncertified(d) ==
  /\ pc[d] = "read"
  /\ sha' = [sha EXCEPT ![d] = record[env[d]]]
  /\ Goto(d, "compare")
  /\ UNCHANGED <<vaultVars, file, requestVars, env, outcome, crashes>>

\* GetPluginToolConfig, and whether the record lists this instance.
ReadSignature(d) ==
  /\ pc[d] = "read"
  /\ \/ /\ record[env[d]] # NoSha
        /\ sha' = [sha EXCEPT ![d] = record[env[d]]]
        /\ \/ Goto(d, "compare") /\ UNCHANGED outcome
           \/ "instance" \in Errors /\ Goto(d, "last") /\ Becomes(d, "elsewhere")
     \/ /\ record[env[d]] = NoSha \/ "read" \in Errors
        /\ Returns(d)
        /\ UNCHANGED <<sha, outcome>>
  /\ UNCHANGED <<vaultVars, file, requestVars, env, crashes>>

\* Mutant of Compare: a file that is there is not looked into.
CompareNothing(d) ==
  /\ pc[d] = "compare"
  /\ \/ file # Absent /\ Becomes(d, "present") /\ Goto(d, "push")
     \/ file = Absent /\ Goto(d, "download") /\ UNCHANGED outcome
  /\ UNCHANGED <<vaultVars, file, requestVars, env, sha, crashes>>

\* The sha256 of the file; a file that is not there has none.
Compare(d) ==
  /\ pc[d] = "compare"
  /\ \/ file = sha[d] /\ Becomes(d, "present") /\ Goto(d, "push")
     \/ file # sha[d] /\ Goto(d, "download") /\ UNCHANGED outcome
  /\ UNCHANGED <<vaultVars, file, requestVars, env, sha, crashes>>

\* GetImageAndShaFromDownload.  Nothing is copied unless the downloaded image is
\* the one that is certified.
Download(d) ==
  /\ pc[d] = "download"
  /\ \/ Goto(d, "open") /\ UNCHANGED outcome
     \/ "download" \in Errors /\ Becomes(d, "refused") /\ Goto(d, "last")
  /\ UNCHANGED <<vaultVars, file, requestVars, env, sha, crashes>>

\* os.WriteFile opens the file and empties it...
Open(d) ==
  /\ pc[d] = "open"
  /\ file' = Torn
  /\ Goto(d, "fill")
  /\ UNCHANGED <<vaultVars, requestVars, env, sha, outcome, crashes>>

\* ... and writes the image from its start.  Over a longer image that came in
\* between, the end of that one remains.
Fill(d) ==
  /\ pc[d] = "fill"
  /\ file' \in IF file \in {Torn, sha[d]} THEN {sha[d]} ELSE {sha[d], Garbled}
  /\ Becomes(d, "wrote")
  /\ Goto(d, "mode")
  /\ UNCHANGED <<vaultVars, requestVars, env, sha, crashes>>

\* Open, Chmod and setcap.
SetMode(d) ==
  /\ pc[d] = "mode"
  /\ \/ Goto(d, "push")
     \/ "mode" \in Errors /\ Returns(d)
  /\ UNCHANGED <<vaultVars, file, requestVars, env, sha, outcome, crashes>>

-----------------------------------------------------------------------------
(* PushPluginSha, the record and the end. *)

\* Mutant of Reply: the client is told what is in the file.
ReplyFile(d) == file
Reply(d)     == IF outcome[d] = "elsewhere" THEN NotFound ELSE sha[d]

\* The channel has no buffer: the client has to be there, once.
Send(d, from, to) ==
  /\ pc[d] = from
  /\ \/ /\ d \in Envs
        /\ UNCHANGED <<request, answer>>
     \/ /\ d \in Requests /\ request[d] = "waiting"
        /\ request' = [request EXCEPT ![d] = "answered"]
        /\ answer' = [answer EXCEPT ![d] = Reply(d)]
  /\ Goto(d, to)
  /\ UNCHANGED <<vaultVars, file, held, env, sha, outcome, crashes>>

PushPluginSha(d) == Send(d, "push", "record")

\* The record gets the sha256 that was read, whatever it holds by now; copied
\* and deployed are cleared.  An error is logged.
UpdateRecord(d) ==
  /\ pc[d] = "record"
  /\ \/ WriteRecord(env[d], sha[d])
     \/ "record" \in Errors /\ UNCHANGED <<record, held>>
  /\ Goto(d, "last")
  /\ UNCHANGED <<issued, certified, file, request, answer, env, sha, outcome, crashes>>

\* Mutant of PushLast: the client of an image that was not copied is left alone.
PushLastCopied(d) == outcome[d] # "refused" /\ Send(d, "last", "complete")
\* A request that was answered before is not there: its deployment waits for ever.
PushLast(d)       == Send(d, "last", "complete")

-----------------------------------------------------------------------------
\* The carrier process ends: a crash of the host, or a WriteFile that fails, whose
\* message reads the error of a download that had none.  Vault starts it again.
Restart ==
  /\ crashes' = crashes + 1
  /\ request' = [r \in Requests |->
                   IF request[r] \in {"queued", "waiting"} THEN "lost" ELSE request[r]]
  /\ pc' = [d \in Deployments |-> "none"]
  /\ sha' = [d \in Deployments |-> NoSha]
  /\ outcome' = [d \in Deployments |-> "none"]
  /\ UNCHANGED <<vaultVars, answer, held, env>>

Crash == crashes < MaxCrashes /\ Restart /\ UNCHANGED file

WriteFails(d) ==
  /\ "write" \in Errors /\ crashes < MaxCrashes
  /\ pc[d] = "fill"
  /\ Restart /\ UNCHANGED file

-----------------------------------------------------------------------------
Deploy(d) ==
  \/ ReadSignature(d) \/ Compare(d) \/ Download(d) \/ Open(d) \/ Fill(d) \/ SetMode(d)
  \/ PushPluginSha(d) \/ UpdateRecord(d) \/ PushLast(d)

Next ==
  \/ \E e \in Envs, s \in Shas : Certify(e, s)
  \/ \E r \in Requests : TrcUpdate(r) \/ Take(r)
  \/ \E e \in Envs : TrcInitialize(e)
  \/ \E d \in Deployments : Deploy(d) \/ WriteFails(d)
  \/ Crash

Spec == Init /\ [][Next]_vars

\* Goroutines run; the calls they wait for end, well or not.
FairSpec ==
  /\ Spec
  /\ \A r \in Requests : WF_vars(Take(r))
  /\ \A e \in Envs : WF_vars(TrcInitialize(e))
  /\ \A d \in Deployments : WF_vars(Deploy(d))

-----------------------------------------------------------------------------
TypeOK ==
  /\ record \in [Envs -> Shas \cup {NoSha}]
  /\ issued \in [Envs -> SUBSET Shas]
  /\ file \in Shas \cup {Absent, Torn, Garbled}
  /\ request \in [Requests -> {"none", "queued", "waiting", "answered", "refused", "lost"}]
  /\ env \in [Deployments -> Envs]
  /\ answer \in [Requests -> Shas \cup {NoSha, NotFound}]
  /\ held \in [Requests -> SUBSET Shas]
  /\ pc \in [Deployments -> DeploymentStates]
  /\ sha \in [Deployments -> Shas \cup {NoSha}]
  /\ outcome \in [Deployments -> Outcomes]
  /\ certified \in 0 .. MaxCertify /\ crashes \in 0 .. MaxCrashes

(* Whatever fails, and whichever deployments run at once, the record of an      *)
(* environment only ever holds a sha256 that the tool has certified for it.     *)
RecordIsCertified ==
  \A e \in Envs : record[e] # NoSha => record[e] \in issued[e]

(* A client is told a sha256 that its record held while it was waiting, however *)
(* long the request was queued and whoever certified in the meantime.           *)
AnswerIsCurrent ==
  \A r \in Requests : answer[r] \in Shas => answer[r] \in held[r]

Installed(d) == outcome[d] \in {"present", "wrote"}

(* What a deployment has found or put in place stays there, unless another one  *)
(* is about to write or has written a different image: environments that have   *)
(* certified one image do not disturb each other for long.                      *)
InstalledStays ==
  \A d \in Deployments :
    Installed(d) =>
      \/ file = sha[d]
      \/ \E q \in Deployments \ {d} :
           pc[q] = "fill" \/ (outcome[q] = "wrote" /\ sha[q] # sha[d])

\* A deployment that has read its record knows a certified image.
ShaOK ==
  \A d \in Deployments :
    /\ pc[d] \notin {"none", "read", "returned"} => sha[d] \in Shas
    /\ outcome[d] # "none" => sha[d] \in Shas
    /\ sha[d] # NoSha => sha[d] \in issued[env[d]]
    /\ pc[d] \in {"none", "read", "compare", "download", "open", "fill"} => outcome[d] = "none"

\* What a request is told is being watched from the time it is made.
RequestOK ==
  \A r \in Requests :
    /\ request[r] \notin {"waiting", "answered"} => pc[r] = "none" /\ sha[r] = NoSha
    /\ request[r] \in {"queued", "waiting"} => record[env[r]] \in held[r]
    /\ request[r] = "waiting" /\ sha[r] # NoSha => sha[r] \in held[r]
    /\ pc[r] = "read" => request[r] = "waiting"
    /\ request[r] # "answered" => answer[r] = NoSha

\* A deployment that is about to write finds the file as it left it, or with its
\* own image, or with traces of a deployment that wrote another one.
WriterOK ==
  \A q \in Deployments :
    pc[q] = "fill" =>
      \/ file \in {Torn, sha[q]}
      \/ \E x \in Deployments \ {q} : outcome[x] = "wrote" /\ sha[x] # sha[q]

(* The strengthening of the three properties above: they are kept by every step *)
(* together with what a deployment in progress knows of the record and the file. *)
Coherent ==
  /\ TypeOK /\ ShaOK /\ RequestOK /\ WriterOK
  /\ RecordIsCertified /\ AnswerIsCurrent /\ InstalledStays

-----------------------------------------------------------------------------
(* A client is answered, unless its deployment returned early or the carrier    *)
(* went down under it.                                                          *)
Answered ==
  \A r \in Requests :
    (request[r] \in {"queued", "waiting"})
      ~> (request[r] \in {"answered", "lost"} \/ pc[r] = "returned")

GaveUp(e) == pc[e] = "returned" \/ outcome[e] \in {"refused", "elsewhere"}

(* A file that was left half written, by a crash of the carrier too, is written *)
(* again: if no request does it the next start of the carrier does, unless it   *)
(* gives up in every environment.                                               *)
TornIsFilled ==
  (file = Torn) ~> (file # Torn \/ \A e \in Envs : GaveUp(e))

(* "It should return sha256 of copied plugin on success": a client that is told *)
(* a sha256 finds that image copied.  Violated: a refusal to copy is answered   *)
(* with the sha256 that is certified.                                           *)
AnswerIsCopied ==
  [][\A r \in Requests : answer'[r] # answer[r] /\ answer'[r] \in Shas => file = answer'[r]]_vars
=============================================================================
