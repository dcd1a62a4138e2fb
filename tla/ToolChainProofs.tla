---------------------------- MODULE ToolChainProofs ----------------------------
(***************************************************************************)
(* Proofs about the tools that configure, TrcX, TrcInit and TrcConfig on   *)
(* one VaultKV, as MCToolChain runs them beside Rotation: what belongs to  *)
(* a target stays with it from seed file to vault to rendering, seeds are  *)
(* whole, and no placeholder becomes a secret.  For any targets, sections, *)
(* templates, certificates, scopes, bounds of failing calls and order of   *)
(* steps.                                                                  *)
(***************************************************************************)
EXTENDS MCToolChain, RotationProofs, FiniteSetTheorems

(* What may be found under a target, and what may be once it was entered or *)
(* parsed from a template. *)
Own(t)   == {d \in Data : d[1] \in {t, "template", "nothing"}}
Given(t) == Own(t) \ {Nothing}

(* A bucket that must not hold a placeholder, and what a bucket may hold.   *)
Guarded(b)  == b[1] \notin Index /\ b[3] = "super-secrets" /\ <<b[2], b[3]>> \notin CertData
Storable(b) == {d \in Own(b[1]) : Guarded(b) => d # Default}

-----------------------------------------------------------------------------
(* The inductive invariant, component by component. *)

VaultInv ==
  /\ published \subseteq Templates /\ linked \subseteq Templates /\ faults \in 0..MaxFaults
  /\ vault \in [Buckets -> Seq(Data)]
  /\ \A b \in Buckets : vault[b] \in Seq(Storable(b))

(* trcx: a result is the target's that it says it is of, and holds something *)
(* for every part; a generator keeps its own, and has the result of every    *)
(* template that its wait group no longer counts.                            *)
XTypes ==
  /\ seeds \in [Targets -> [Parts -> Data]] /\ written \subseteq Targets
  /\ xAt \in [Targets -> {"idle", "clean", "paths", "wait", "end"}]
  /\ xVersion \in [Targets -> 0..MaxVersions]
  /\ working \in [Targets -> SUBSET Templates] /\ open \in [Targets -> SUBSET Templates]
  /\ results \subseteq Results /\ sections \in [Targets -> SUBSET Results]
  /\ diff \in [on : BOOLEAN, got : SUBSET (Targets \X [Parts -> Data])]
OwnResults == {r \in Results : \A k \in Kinds : r.data[k] \in Given(r.of)}
OwnSeeds ==
  /\ \A t \in Targets, q \in Parts : seeds[t][q] \in Own(t)
  /\ \A t \in written, q \in Parts : seeds[t][q] # Nothing
  /\ \A c \in diff.got, q \in Parts : c[2][q] \in Given(c[1])
Received ==
  /\ results \subseteq OwnResults
  /\ \A t \in Targets : \A r \in sections[t] : r \in OwnResults /\ r.of = t
  /\ \A t \in Targets : xAt[t] = "wait" =>
       \A p \in Templates \ open[t] : \E r \in sections[t] : r.template = p
XInv == XTypes /\ OwnSeeds /\ Received

(* trcinit: from the file at hand on, what was loaded is the target's, and   *)
(* once it was let through it may all be stored; the modifier points there,  *)
(* or where no target is.                                                   *)
InitTypes ==
  /\ rounds \in [Targets -> 0..Rounds]
  /\ initAt \in {"idle", "connected", "files", "data", "write", "seeded"}
  /\ files \subseteq Targets /\ file \in Targets \cup {NoFile} /\ loaded \in [Parts -> Data]
  /\ entries \subseteq Parts /\ links \subseteq Templates /\ linkedNow \subseteq Templates
  /\ modifier \in [env : Targets \cup {"secret"}, section : Index \cup {NoSection}]
  /\ wantCerts \in BOOLEAN
Loaded ==
  /\ initAt \in {"data", "write", "seeded"} =>
       file \in Targets /\ \A q \in Parts : loaded[q] \in Own(file)
  /\ initAt = "write" =>
       /\ \A q \in Parts : loaded[q] \in Storable(<<file, q[1], q[2]>>)
       /\ PathOf(modifier) \in Targets => PathOf(modifier) = file
InitInv == InitTypes /\ Loaded

(* trcconfig: who has templates left renders one of the run's environments.  *)
CTypes ==
  /\ configs \in [Targets -> [Parts -> Data]]
  /\ asked \in Seq(Targets) /\ Len(asked) <= DiffEnvs
  /\ cVersion \in 0..MaxVersions /\ cCerts \in BOOLEAN
  /\ appended \in 0..Len(asked) /\ shortened \subseteq Slots
  /\ renders \in [Slots -> [of : 0..DiffEnvs, version : 0..MaxVersions, named : BOOLEAN,
                            left : SUBSET Templates]]
  /\ resultMap \subseteq Targets \X Templates
Rendered ==
  /\ \A t \in Targets, q \in Parts : configs[t][q] \in Own(t)
  /\ \A i \in Slots : renders[i].left # {} => renders[i].of \in 1..Len(asked)
CInv == CTypes /\ Rendered

ToolInv == runs \in 0..MaxRuns /\ VaultInv /\ XInv /\ InitInv /\ CInv

-----------------------------------------------------------------------------
(* Data. *)

LEMMA DataFacts ==
  /\ Default \in Data /\ Nothing \in Data /\ Default # Nothing
  /\ \A t \in Targets : /\ Given(t) \subseteq Own(t) /\ Own(t) \subseteq Data
                        /\ Nothing \in Own(t) /\ Default \in Given(t)
                        /\ \A n \in 1..Rounds : <<t, n>> \in Given(t) /\ <<t, n>> # Default
BY VaultAssumption DEF Own, Given, Data, Entered, Default, Nothing

LEMMA BucketFacts ==
  /\ \A t \in Targets, p \in Templates, k \in Kinds : <<t, p, k>> \in Buckets
  /\ \A t \in Targets, q \in Parts : <<t, q[1], q[2]>> \in Buckets
  /\ \A b \in Buckets : /\ b[1] \in Targets /\ b[2] \in Templates /\ b[3] \in Kinds
                        /\ <<b[2], b[3]>> \in Parts
  /\ \A p \in Templates, k \in Kinds : <<p, k>> \in Parts
  /\ \A q \in Parts : q[1] \in Templates /\ q[2] \in Kinds /\ q = <<q[1], q[2]>>
  /\ CertData \subseteq Parts
BY VaultAssumption DEF Buckets, Parts, CertData

LEMMA BoundFacts ==
  /\ Rounds \in Nat /\ 0 \in 0..Rounds /\ 1 \in 0..Rounds /\ 1 \in 1..Rounds
  /\ MaxVersions \in Nat /\ 0 \in 0..MaxVersions
  /\ MaxFaults \in Nat /\ 0 \in 0..MaxFaults
  /\ DiffEnvs \in Nat /\ 0 \in 0..DiffEnvs
  /\ MaxRuns \in Nat /\ 0 \in 0..MaxRuns /\ 1 \in 0..MaxRuns
BY VaultAssumption, ConfigAssumption, ToolAssumption

(* A fault is counted. *)
LEMMA FaultCounts == ASSUME faults \in 0..MaxFaults, Fault PROVE faults' \in 0..MaxFaults
BY VaultAssumption DEF Fault

(* What is read for a target is the target's, or nothing. *)
LEMMA StoredOwn ==
  ASSUME VaultInv, NEW t \in Targets, NEW p \in Templates, NEW v \in 0..MaxVersions
  PROVE  \A k \in Kinds : Stored(t, p, v)[k] \in Own(t)
<1> SUFFICES ASSUME NEW k \in Kinds PROVE Stored(t, p, v)[k] \in Own(t)
  OBVIOUS
<1> DEFINE b == <<t, p, k>>
<1>1. b \in Buckets /\ b[1] = t
  BY BucketFacts
<1>2. vault[b] \in Seq(Storable(b)) /\ Storable(b) \subseteq Own(t)
  BY <1>1 DEF VaultInv, Storable
<1>3. Nothing \in Own(t)
  BY DataFacts
<1>4. \A i \in DOMAIN vault[b] : vault[b][i] \in Own(t)
  BY <1>2
<1>5. vault[b] # <<>> => Len(vault[b]) \in DOMAIN vault[b]
  BY <1>2
<1>6. ReadData(b, v) \in Own(t)
  BY <1>3, <1>4, <1>5 DEF ReadData, Latest
<1> QED BY <1>3, <1>6 DEF Stored

(* So it is with what is missed of it. *)
LEMMA MissedOwn ==
  ASSUME NEW t \in Targets, NEW found, \A k \in Kinds : found[k] \in Own(t),
         NEW data \in Missed(found)
  PROVE  \A k \in Kinds : data[k] \in Own(t)
BY DataFacts DEF Missed

(* Parsing fills in what the template gives. *)
LEMMA ParseGives ==
  ASSUME NEW t \in Targets, NEW p \in Templates, NEW found, \A k \in Kinds : found[k] \in Own(t)
  PROVE  Parse(p, found) \in [Kinds -> Given(t)]
BY DataFacts DEF Parse, parseAndSetSection, Given

-----------------------------------------------------------------------------
(* Vault. *)

(* A datum that may be stored is written, perhaps several times over.        *)
LEMMA WriteStores ==
  ASSUME VaultInv, NEW b \in Buckets, NEW d \in Storable(b), Write(b, d) \/ WriteFails(b, d)
  PROVE  /\ faults' \in 0..MaxFaults
         /\ vault' \in [Buckets -> Seq(Data)]
         /\ \A c \in Buckets : vault'[c] \in Seq(Storable(c))
<1> DEFINE S == Storable(b)
<1>1. S \subseteq Data
  BY DataFacts DEF Storable, Own
<1>2. vault[b] \in Seq(S) /\ vault \in [Buckets -> Seq(Data)]
  BY DEF VaultInv
<1>3. faults' \in 0..MaxFaults
  <2>1. faults \in 0..MaxFaults /\ MaxFaults \in Nat /\ WriteRetries \in Nat
    BY VaultAssumption DEF VaultInv
  <2>2. CASE Write(b, d)
    <3>1. PICK lost \in 0..WriteRetries : faults + lost <= MaxFaults /\ faults' = faults + lost
      BY <2>2 DEF Write
    <3> QED BY <2>1, <3>1
  <2>3. CASE WriteFails(b, d)
    BY <2>3, <2>1, FaultCounts DEF WriteFails
  <2> QED BY <2>2, <2>3
<1>4. SUFFICES ASSUME NEW s \in Seq(S), vault' = [vault EXCEPT ![b] = s]
               PROVE  /\ vault' \in [Buckets -> Seq(Data)]
                      /\ \A c \in Buckets : vault'[c] \in Seq(Storable(c))
  <2>1. CASE Write(b, d)
    <3>1. PICK lost \in 0..WriteRetries :
            vault' = [vault EXCEPT ![b] = @ \o [i \in 1..(lost + 1) |-> d]]
      BY <2>1 DEF Write
    <3>2. [i \in 1..(lost + 1) |-> d] \in Seq(S)
      BY VaultAssumption
    <3>3. vault[b] \o [i \in 1..(lost + 1) |-> d] \in Seq(S)
      BY <1>2, <3>2
    <3> QED BY <1>2, <1>3, <1>4, <3>1, <3>3
  <2>2. CASE WriteFails(b, d)
    <3>1. Append(vault[b], d) \in Seq(S)
      BY <1>2
    <3>2. vault' = [vault EXCEPT ![b] = vault[b]] \/ vault' = [vault EXCEPT ![b] = Append(vault[b], d)]
      BY <2>2, <1>2 DEF WriteFails
    <3> QED BY <1>2, <1>3, <1>4, <3>1, <3>2
  <2> QED BY <2>1, <2>2
<1>5. s \in Seq(Data)
  BY <1>1
<1> QED BY <1>2, <1>4, <1>5 DEF VaultInv

LEMMA PublishKeeps ==
  ASSUME VaultInv, Publish
  PROVE  VaultInv'
BY FaultCounts DEF Publish, VaultInv, Storable, Own, Guarded

(* Steps that leave vault alone, but for a fault. *)
LEMMA VaultKeeps ==
  ASSUME VaultInv, faults' \in 0..MaxFaults, UNCHANGED <<published, linked, vault>>
  PROVE  VaultInv'
BY DEF VaultInv

-----------------------------------------------------------------------------
(* trcx. *)

LEMMA XExitKeeps ==
  ASSUME XInv, XExit, UNCHANGED <<seeds, written>>
  PROVE  XInv'
<1>1. XTypes'
  BY VaultAssumption DEF XInv, XTypes, XExit, NoDiff
<1>2. OwnSeeds' /\ Received'
  BY DEF XInv, OwnSeeds, Received, XExit, NoDiff
<1> QED BY <1>1, <1>2 DEF XInv

LEMMA XStartKeeps == ASSUME XInv, XStart \/ XDone PROVE XInv'
<1>1. CASE XStart
  <2>1. XTypes'
    BY <1>1, VaultAssumption DEF XInv, XTypes, XStart
  <2>2. OwnSeeds' /\ Received'
    BY <1>1 DEF XInv, OwnSeeds, Received, XStart, XIdle
  <2> QED BY <2>1, <2>2 DEF XInv
<1>2. CASE XDone
  BY <1>2, XExitKeeps DEF XDone
<1> QED BY <1>1, <1>2

LEMMA XCleanKeeps ==
  ASSUME XInv, NEW t \in Targets, XClean(t) \/ XPaths(t)
  PROVE  XInv'
<1>1. XTypes'
  <2>1. CASE XClean(t)
    <3>1. NoSeed \in [Parts -> Data]
      BY DataFacts DEF NoSeed
    <3> QED BY <2>1, <3>1, ZenonT(60) DEF XInv, XTypes, XClean
  <2>2. CASE XPaths(t)
    BY <2>2 DEF XInv, XTypes, XPaths
  <2> QED BY <2>1, <2>2
<1>2. OwnSeeds'
  BY DataFacts DEF XInv, XTypes, OwnSeeds, XClean, XPaths, NoSeed
<1>3. Received'
  BY DEF XInv, XTypes, Received, XClean, XPaths
<1> QED BY <1>1, <1>2, <1>3 DEF XInv

(* A worker's result is its target's, whatever it could not read. *)
LEMMA SeedResult ==
  ASSUME NEW t \in Targets, NEW p \in Templates, NEW data, \A k \in Kinds : data[k] \in Own(t)
  PROVE  ToSeed(t, p, data) \in OwnResults
<1>1. Parse(p, data) \in [Kinds -> Given(t)]
  BY ParseGives
<1>2. Given(t) \subseteq Data
  BY DataFacts
<1> QED BY <1>1, <1>2 DEF ToSeed, OwnResults, Results

LEMMA WorkerKeeps ==
  ASSUME VaultInv, XInv, NEW t \in Targets, NEW p \in Templates, Worker(t, p)
  PROVE  XInv' /\ VaultInv'
<1> DEFINE found == Stored(t, p, xVersion[t])
           Sends(data) == /\ working' = [working EXCEPT ![t] = @ \ {p}]
                          /\ results' = results \cup {ToSeed(t, p, data)}
                          /\ UNCHANGED <<xAt, xVersion, open, sections, diff>>
<1>1. \A k \in Kinds : found[k] \in Own(t)
  BY StoredOwn DEF XInv, XTypes
<1>2. /\ UNCHANGED <<seeds, written, published, linked, vault>>
      /\ \/ Sends(found) /\ UNCHANGED faults
         \/ Fault /\ \E data \in Missed(found) \ {found} : Sends(data)
         \/ Fault /\ XExit
  BY DEF Worker
<1>3. VaultInv'
  BY <1>2, VaultKeeps, FaultCounts DEF VaultInv
<1>4. ASSUME NEW data, \A k \in Kinds : data[k] \in Own(t), Sends(data) PROVE XInv'
  <2>1. ToSeed(t, p, data) \in OwnResults /\ OwnResults \subseteq Results
    BY <1>4, SeedResult DEF OwnResults
  <2>2. XTypes'
    BY <1>2, <1>4, <2>1 DEF XInv, XTypes
  <2>3. OwnSeeds' /\ Received'
    BY <1>2, <1>4, <2>1 DEF XInv, OwnSeeds, Received
  <2> QED BY <2>2, <2>3 DEF XInv
<1>5. ASSUME NEW data \in Missed(found), Sends(data) PROVE XInv'
  BY <1>1, <1>4, <1>5, MissedOwn
<1> QED BY <1>1, <1>2, <1>3, <1>4, <1>5, XExitKeeps

LEMMA ReceiveKeeps == ASSUME XInv, NEW t \in Targets, Receive(t) PROVE XInv'
<1>1. PICK r \in results :
        /\ r.of = t /\ xAt[t] = "wait"
        /\ results' = results \ {r}
        /\ sections' = [sections EXCEPT ![t] = @ \cup {r}]
        /\ open' = [open EXCEPT ![t] = @ \ {r.template}]
        /\ UNCHANGED <<xAt, xVersion, working, diff, seeds, written>>
  BY DEF Receive, Mine
<1>2. r \in OwnResults /\ OwnResults \subseteq Results
  BY DEF XInv, Received, OwnResults
<1>3. XTypes'
  BY <1>1, <1>2 DEF XInv, XTypes
<1>4. OwnSeeds'
  BY <1>1 DEF XInv, OwnSeeds
<1>5. Received'
  BY <1>1, <1>2 DEF XInv, XTypes, Received
<1> QED BY <1>3, <1>4, <1>5 DEF XInv

(* With the result of every template the seed holds every part of the target. *)
LEMMA CombinedWhole ==
  ASSUME XInv, NEW t \in Targets, xAt[t] = "wait", open[t] = {}
  PROVE  GenerateSeedsFromVaultRaw(t) \in [Parts -> Given(t)]
<1> SUFFICES ASSUME NEW q \in Parts
             PROVE  CombineSection(sections[t])[q] \in Given(t)
  BY DEF GenerateSeedsFromVaultRaw, CombineSection
<1> DEFINE of == {r \in sections[t] : r.template = q[1]}
<1>1. q[1] \in Templates /\ q[2] \in Kinds
  BY BucketFacts
<1>2. of # {}
  BY <1>1 DEF XInv, Received
<1>3. (CHOOSE r \in of : TRUE) \in of
  BY <1>2
<1>4. (CHOOSE r \in of : TRUE).data[q[2]] \in Given(t)
  BY <1>1, <1>3 DEF XInv, Received, OwnResults
<1> QED BY <1>2, <1>4 DEF CombineSection

LEMMA WriteSeedKeeps == ASSUME XInv, NEW t \in Targets, WriteSeed(t) PROVE XInv'
<1> DEFINE seed == GenerateSeedsFromVaultRaw(t)
<1>1. seed \in [Parts -> Given(t)] /\ Given(t) \subseteq Own(t) /\ Own(t) \subseteq Data
  BY CombinedWhole, DataFacts DEF WriteSeed
<1>2. seed \in [Parts -> Data] /\ \A q \in Parts : seed[q] \in Given(t) /\ seed[q] \in Own(t) /\ seed[q] # Nothing
  BY <1>1 DEF Given
<1> HIDE DEF seed
<1>3. XTypes'
  BY <1>2 DEF XInv, XTypes, WriteSeed, seed
<1>4. OwnSeeds'
  <2>1. CASE UNCHANGED <<seeds, written, diff>>
    BY <2>1 DEF XInv, OwnSeeds
  <2>2. CASE diff' = [diff EXCEPT !.got = @ \cup {<<t, seed>>}] /\ UNCHANGED <<seeds, written>>
    <3>1. diff'.got = diff.got \cup {<<t, seed>>}
      BY <2>2 DEF XInv, XTypes
    <3> QED BY <1>2, <2>2, <3>1 DEF XInv, OwnSeeds
  <2>3. CASE UNCHANGED diff /\ seeds' = [seeds EXCEPT ![t] = seed] /\ written' = written \cup {t}
    BY <1>2, <2>3 DEF XInv, XTypes, OwnSeeds
  <2> QED BY <2>1, <2>2, <2>3 DEF WriteSeed, seed
<1>5. Received'
  BY DEF XInv, XTypes, Received, WriteSeed
<1> QED BY <1>3, <1>4, <1>5 DEF XInv

LEMMA XKeeps == ASSUME VaultInv, XInv, XNext PROVE XInv' /\ VaultInv'
<1>1. CASE XStart \/ XDone
  BY <1>1, XStartKeeps, VaultKeeps DEF XStart, XDone, vaultVars, VaultInv
<1>2. ASSUME NEW t \in Targets, XVersionExit(t) PROVE XInv' /\ VaultInv'
  BY <1>2, XExitKeeps, VaultKeeps, FaultCounts DEF XVersionExit, VaultInv
<1>3. ASSUME NEW t \in Targets, XClean(t) \/ XPaths(t) \/ Receive(t) \/ WriteSeed(t)
      PROVE  XInv' /\ VaultInv'
  <2>1. VaultInv'
    BY <1>3, VaultKeeps DEF XClean, XPaths, Receive, WriteSeed, vaultVars, VaultInv
  <2> QED BY <1>3, <2>1, XCleanKeeps, ReceiveKeeps, WriteSeedKeeps
<1> QED BY <1>1, <1>2, <1>3, WorkerKeeps DEF XNext

-----------------------------------------------------------------------------
(* trcinit, and the operator. *)

(* A modifier made anew points where no target is.                           *)
LEMMA NewOneFacts ==
  /\ NewOne \in [env : Targets \cup {"secret"}, section : Index \cup {NoSection}]
  /\ PathOf(NewOne) \notin Targets
BY VaultAssumption DEF NewOne, NoSection, PathOf

(* Pointed to a file, without the section of the file before, it writes there.  *)
LEMMA PointedThere ==
  ASSUME InitInv, NEW t \in Targets
  PROVE  LET m == Pointed(NewModifierFrom(modifier), t)
         IN  /\ m \in [env : Targets \cup {"secret"}, section : Index \cup {NoSection}]
             /\ PathOf(m) = t
<1> DEFINE m == Pointed(NewModifierFrom(modifier), t)
<1>1. m = [env |-> EnvOf(t), section |-> IF t \in Index THEN t ELSE NoSection]
  BY DEF InitInv, InitTypes, Pointed, NewModifierFrom
<1>2. EnvOf(t) \in Targets /\ (t \notin Index => EnvOf(t) = t)
  BY VaultAssumption DEF EnvOf
<1>3. t # NoSection
  BY VaultAssumption DEF NoSection
<1> HIDE DEF m
<1>4. m \in [env : Targets \cup {"secret"}, section : Index \cup {NoSection}]
  BY <1>1, <1>2
<1>5. PathOf(m) = t
  BY <1>1, <1>2, <1>3 DEF PathOf
<1> QED BY <1>4, <1>5 DEF m

LEMMA InitExitKeeps == ASSUME InitInv, InitExit PROVE InitInv'
<1>1. NoSeed \in [Parts -> Data]
  BY DataFacts DEF NoSeed
<1> QED BY <1>1, NewOneFacts DEF InitInv, InitTypes, Loaded, InitExit

LEMMA FileDoneKeeps == ASSUME InitInv, FileDone PROVE InitInv'
<1>1. NoSeed \in [Parts -> Data]
  BY DataFacts DEF NoSeed
<1> QED BY <1>1 DEF InitInv, InitTypes, Loaded, FileDone

(* What the operator enters for a target is the target's. *)
LEMMA EditKeeps ==
  ASSUME XInv, InitInv, NEW t \in Targets, EditSeed(t)
  PROVE  XInv' /\ InitInv'
<1>1. rounds[t] + 1 \in 1..Rounds /\ rounds' = [rounds EXCEPT ![t] = rounds[t] + 1]
  BY VaultAssumption DEF EditSeed, InitInv, InitTypes
<1>2. rounds' \in [Targets -> 0..Rounds] /\ rounds'[t] = rounds[t] + 1
  BY <1>1, VaultAssumption DEF InitInv, InitTypes
<1> DEFINE new == <<t, rounds'[t]>>
           edited == [q \in Parts |-> IF q \in CertData \/ seeds[t][q] = Nothing
                                      THEN seeds[t][q] ELSE new]
<1>3. new \in Given(t) /\ Given(t) \subseteq Own(t) /\ Own(t) \subseteq Data
  BY <1>1, <1>2, DataFacts
<1>4. seeds' = [seeds EXCEPT ![t] = edited]
  BY DEF EditSeed
<1>5. \A q \in Parts : edited[q] \in Own(t) /\ (seeds[t][q] # Nothing => edited[q] # Nothing)
  BY <1>3 DEF XInv, OwnSeeds, Given
<1>6. edited \in [Parts -> Data]
  BY <1>3, <1>5
<1> HIDE DEF edited
<1>7. XTypes'
  BY <1>4, <1>6, ZenonT(60) DEF XInv, XTypes, EditSeed, xRun
<1>8. OwnSeeds'
  BY <1>4, <1>5 DEF XInv, XTypes, OwnSeeds, EditSeed
<1>9. Received'
  BY DEF XInv, Received, EditSeed, xRun
<1>10. InitInv'
  BY <1>2 DEF InitInv, InitTypes, Loaded, EditSeed, initRun
<1> QED BY <1>7, <1>8, <1>9, <1>10 DEF XInv

LEMMA TargetKeeps == ASSUME InitInv, InitStart \/ InitTarget PROVE InitInv'
<1>1. CASE InitStart
  BY <1>1 DEF InitStart, InitInv, InitTypes, Loaded
<1>2. CASE InitTarget
  <2>1. CASE InitExit
    BY <2>1, InitExitKeeps
  <2>2. CASE /\ files' \subseteq Targets /\ initAt' = "files"
             /\ UNCHANGED <<rounds, wantCerts, file, loaded, entries, links, linkedNow, modifier>>
    BY <2>2, VaultAssumption DEF InitInv, InitTypes, Loaded
  <2>3. CASE \E t \in Targets \ Index :
               files' \in (SUBSET ({t} \cup {s \in Index : t = IndexEnv})) \ {{}}
    <3>1. files' \subseteq Targets
      BY <2>3, VaultAssumption
    <3> QED BY <1>2, <2>1, <2>2, <3>1 DEF InitTarget
  <2> QED BY <1>2, <2>1, <2>3 DEF InitTarget
<1> QED BY <1>1, <1>2

(* A file is the target's own. *)
LEMMA SeedVaultKeeps ==
  ASSUME XInv, InitInv, SeedVault
  PROVE  InitInv'
<1>1. PICK t \in files :
        /\ files' = files \ {t}
        /\ \/ file' = t /\ loaded' = seeds[t] /\ initAt' = "data"
           \/ UNCHANGED <<initAt, file, loaded>>
  BY DEF SeedVault
<1>2. /\ t \in Targets /\ initAt = "files"
      /\ UNCHANGED <<rounds, wantCerts, entries, links, linkedNow, modifier>>
  BY DEF SeedVault, InitInv, InitTypes
<1>3. seeds[t] \in [Parts -> Data] /\ \A q \in Parts : seeds[t][q] \in Own(t)
  BY <1>2 DEF XInv, XTypes, OwnSeeds
<1>4. CASE UNCHANGED <<initAt, file, loaded>>
  BY <1>1, <1>2, <1>4 DEF InitInv, InitTypes, Loaded
<1>5. CASE file' = t /\ loaded' = seeds[t] /\ initAt' = "data"
  BY <1>1, <1>2, <1>3, <1>5 DEF InitInv, InitTypes, Loaded
<1> QED BY <1>1, <1>4, <1>5

(* So is what is made of the certificates' templates. *)
LEMMA CertificatesKeep ==
  ASSUME VaultInv, InitInv, SeedCertificates
  PROVE  InitInv'
<1>1. PICK t \in Targets : file' = t /\ loaded' = CertSeed(t) /\ initAt' = "data"
  BY DEF SeedCertificates
<1>2. UNCHANGED <<rounds, wantCerts, files, entries, links, linkedNow, modifier>>
  BY DEF SeedCertificates
<1> DEFINE seed == [q \in Parts |-> IF q[1] \in Certs \cap published
                                    THEN Parse(q[1], Stored(t, q[1], 0))[q[2]] ELSE Nothing]
<1>3. \A q \in Parts : seed[q] \in Own(t)
  <2> SUFFICES ASSUME NEW q \in Parts PROVE seed[q] \in Own(t)
    OBVIOUS
  <2>1. q[1] \in Templates /\ q[2] \in Kinds /\ 0 \in 0..MaxVersions
    BY BucketFacts, VaultAssumption
  <2>2. \A k \in Kinds : Stored(t, q[1], 0)[k] \in Own(t)
    BY <2>1, StoredOwn
  <2>3. Parse(q[1], Stored(t, q[1], 0))[q[2]] \in Own(t)
    BY <2>1, <2>2, ParseGives, DataFacts
  <2> QED BY <2>3, DataFacts
<1>4. CertSeed(t) = [q \in Parts |-> IF q \in Placeholders(seed) THEN Nothing ELSE seed[q]]
  BY DEF CertSeed
<1> HIDE DEF seed
<1>5. \A q \in Parts : CertSeed(t)[q] \in Own(t)
  BY <1>3, <1>4, DataFacts
<1>6. CertSeed(t) \in [Parts -> Data]
  BY <1>3, <1>4, DataFacts
<1> QED BY <1>1, <1>2, <1>5, <1>6 DEF InitInv, InitTypes, Loaded

(* What is let through may be stored: a file with placeholders is refused.     *)
LEMMA SeedVaultFromDataKeeps ==
  ASSUME InitInv, SeedVaultFromData
  PROVE  InitInv'
<1>1. CASE FileDone
  BY <1>1, FileDoneKeeps
<1>2. CASE ~FileDone
  <2> DEFINE given == {q \in Parts : loaded[q] # Nothing}
             templates == {q[1] : q \in given}
  <2>1. /\ ~Refused(file, loaded) /\ initAt = "data" /\ initAt' = "write"
        /\ modifier' = Pointed(NewModifierFrom(modifier), file)
        /\ IF wantCerts
           THEN /\ \E valid \in SUBSET (templates \cap Certs) :
                     (valid # {} => rounds[file] > 0) /\ WithCertificates(valid)
                /\ links' = templates \cap Certs
           ELSE entries' = given \ CertData /\ links' = templates /\ UNCHANGED loaded
        /\ UNCHANGED <<rounds, wantCerts, files, file, linkedNow>>
    BY <1>2 DEF SeedVaultFromData
  <2>2. file \in Targets /\ \A q \in Parts : loaded[q] \in Own(file)
    BY <2>1 DEF InitInv, Loaded
  <2>3. \A q \in Parts : loaded[q] \in Storable(<<file, q[1], q[2]>>)
    BY <2>1, <2>2, BucketFacts DEF Storable, Guarded, Refused, Placeholders
  <2>4. templates \subseteq Templates /\ given \subseteq Parts
    BY BucketFacts
  <2>5. /\ loaded' \in [Parts -> Data] /\ entries' \subseteq Parts
        /\ \A q \in Parts : loaded'[q] \in Storable(<<file, q[1], q[2]>>)
    <3>1. CASE ~wantCerts
      BY <2>1, <2>3, <2>4, <3>1 DEF InitInv, InitTypes
    <3>2. CASE wantCerts
      <4>1. PICK valid \in SUBSET (templates \cap Certs) :
              (valid # {} => rounds[file] > 0) /\ WithCertificates(valid)
        BY <2>1, <3>2
      <4>2. valid # {} => rounds[file] \in 1..Rounds
        BY <2>2, <4>1, VaultAssumption DEF InitInv, InitTypes
      <4>3. valid # {} => <<file, rounds[file]>> \in Own(file) /\ <<file, rounds[file]>> # Default
        BY <2>2, <4>2, DataFacts
      <4>4. \A q \in Parts : q[1] \in valid =>
              <<file, rounds[file]>> \in Storable(<<file, q[1], q[2]>>)
        BY <4>3 DEF Storable
      <4>5. \A q \in Parts : loaded'[q] = IF q \in CertData /\ q[1] \in valid
                                          THEN <<file, rounds[file]>> ELSE loaded[q]
        BY <4>1 DEF WithCertificates
      <4>6. \A q \in Parts : loaded'[q] \in Storable(<<file, q[1], q[2]>>)
        BY <2>3, <4>4, <4>5
      <4>7. \A q \in Parts : loaded'[q] \in Data
        BY <2>2, <4>6, DataFacts DEF Storable
      <4> QED BY <4>1, <4>6, <4>7 DEF WithCertificates
    <3> QED BY <3>1, <3>2
  <2>6. \A q \in Parts : loaded'[q] \in Own(file)
    BY <2>5 DEF Storable
  <2>7. links' \subseteq Templates
    BY <2>1, <2>4
  <2>8. /\ modifier' \in [env : Targets \cup {"secret"}, section : Index \cup {NoSection}]
        /\ PathOf(modifier') = file
    BY <2>1, <2>2, PointedThere
  <2> HIDE DEF given, templates
  <2> QED BY <2>1, <2>2, <2>5, <2>6, <2>7, <2>8 DEF InitInv, InitTypes, Loaded, PathOf
<1> QED BY <1>1, <1>2

(* What is written is what was let through. *)
LEMMA WriteDataKeeps ==
  ASSUME VaultInv, InitInv, WriteData
  PROVE  InitInv' /\ VaultInv'
<1> DEFINE b(q) == <<PathOf(modifier), q[1], q[2]>>
<1>1. PICK q \in entries :
        /\ entries' = entries \ {q}
        /\ \/ PathOf(modifier) \in Targets /\ (Write(b(q), loaded[q]) \/ WriteFails(b(q), loaded[q]))
           \/ UNCHANGED <<vault, faults>>
        /\ UNCHANGED modifier \/ modifier' = NewOne
  BY DEF WriteData
<1>2. /\ initAt = "write"
      /\ UNCHANGED <<rounds, initAt, wantCerts, files, file, loaded, links, linkedNow, published, linked>>
  BY DEF WriteData
<1>3. InitInv'
  BY <1>1, <1>2, NewOneFacts DEF InitInv, InitTypes, Loaded, PathOf
<1>4. PathOf(modifier) \in Targets => b(q) \in Buckets /\ loaded[q] \in Storable(b(q))
  BY <1>2, BucketFacts DEF InitInv, InitTypes, Loaded
<1>5. CASE UNCHANGED <<vault, faults>>
  BY <1>2, <1>3, <1>5, VaultKeeps DEF VaultInv
<1>6. CASE /\ PathOf(modifier) \in Targets
           /\ Write(b(q), loaded[q]) \/ WriteFails(b(q), loaded[q])
  <2> HIDE DEF b
  <2>1. /\ faults' \in 0..MaxFaults /\ vault' \in [Buckets -> Seq(Data)]
        /\ \A c \in Buckets : vault'[c] \in Seq(Storable(c))
    BY <1>4, <1>6, WriteStores
  <2> QED BY <1>2, <1>3, <2>1 DEF VaultInv
<1> QED BY <1>1, <1>5, <1>6

LEMMA LinksKeep ==
  ASSUME VaultInv, InitInv, WriteLinks
  PROVE  InitInv' /\ VaultInv'
<1>1. PICK p \in links :
        /\ links' = links \ {p} /\ linkedNow' = linkedNow \cup {p}
        /\ \/ UNCHANGED <<linked, faults, modifier>>
           \/ linked' = linked \cup {p} /\ UNCHANGED <<faults, modifier>>
           \/ Fault /\ modifier' = NewOne /\ UNCHANGED linked
  BY DEF WriteLinks
<1>2. p \in Templates /\ UNCHANGED <<rounds, initAt, wantCerts, files, file, loaded, entries, published, vault>>
  BY DEF WriteLinks, InitInv, InitTypes
<1>3. InitInv'
  BY <1>1, <1>2, NewOneFacts DEF InitInv, InitTypes, Loaded, PathOf
<1>4. faults' \in 0..MaxFaults
  BY <1>1, FaultCounts DEF VaultInv
<1> QED BY <1>1, <1>2, <1>3, <1>4 DEF VaultInv

LEMMA FileKeeps == ASSUME InitInv, Verify \/ NextFile PROVE InitInv'
<1>1. CASE Verify
  BY <1>1 DEF Verify, initRun, InitInv, InitTypes, Loaded
<1>2. CASE NextFile
  BY <1>2, FileDoneKeeps DEF NextFile
<1> QED BY <1>1, <1>2

(* The variables of trcx stay. *)
LEMMA XStays == ASSUME XInv, UNCHANGED xVars PROVE XInv'
BY DEF XInv, XTypes, OwnSeeds, Received, xVars

LEMMA InitKeeps ==
  ASSUME VaultInv, XInv, InitInv, InitNext
  PROVE  VaultInv' /\ XInv' /\ InitInv'
<1>1. CASE InitStart \/ InitTarget \/ SeedVault \/ SeedCertificates \/ SeedVaultFromData
  <2>1. UNCHANGED <<xVars, published, linked, vault>> /\ faults' \in 0..MaxFaults
    BY <1>1, FaultCounts DEF InitStart, InitTarget, SeedVault, SeedCertificates, SeedVaultFromData,
                             VaultInv, vaultVars
  <2> QED BY <1>1, <2>1, TargetKeeps, SeedVaultKeeps, CertificatesKeep, SeedVaultFromDataKeeps,
             VaultKeeps, XStays
<1>2. CASE WriteLinks \/ WriteData
  <2>1. UNCHANGED xVars
    BY <1>2 DEF WriteLinks, WriteData
  <2> QED BY <1>2, <2>1, LinksKeep, WriteDataKeeps, XStays
<1>3. CASE WriteExit \/ Verify \/ NextFile \/ InitDone
  <2>1. UNCHANGED <<xVars, published, linked, vault>> /\ faults' \in 0..MaxFaults
    BY <1>3, FaultCounts DEF WriteExit, Verify, NextFile, InitDone, VaultInv, vaultVars
  <2>2. InitInv'
    BY <1>3, InitExitKeeps, FileKeeps DEF WriteExit, InitDone
  <2> QED BY <2>1, <2>2, VaultKeeps, XStays
<1>4. ASSUME NEW t \in Targets, EditSeed(t) PROVE VaultInv' /\ XInv' /\ InitInv'
  BY <1>4, EditKeeps, VaultKeeps DEF EditSeed, VaultInv, vaultVars
<1> QED BY <1>1, <1>2, <1>3, <1>4 DEF InitNext

-----------------------------------------------------------------------------
(* trcconfig. *)

LEMMA CExitKeeps == ASSUME CInv, CExit PROVE CInv'
<1>1. NoConfigs \in [Targets -> [Parts -> Data]] /\ \A t \in Targets, q \in Parts : NoConfigs[t][q] = Nothing
  BY DataFacts DEF NoConfigs
<1>2. renders' \in [Slots -> [of : 0..DiffEnvs, version : 0..MaxVersions, named : BOOLEAN,
                              left : SUBSET Templates]]
      /\ \A i \in Slots : renders'[i].left = {}
  BY VaultAssumption, ConfigAssumption DEF CExit, NewRender
<1>3. asked' = <<>> /\ Len(asked') = 0 /\ asked' \in Seq(Targets)
  BY DEF CExit
<1>4. CTypes'
  <2>1. Len(asked') <= DiffEnvs /\ appended' \in 0..Len(asked')
    BY <1>3, BoundFacts DEF CExit
  <2>2. cVersion' \in 0..MaxVersions /\ cCerts' \in BOOLEAN /\ shortened' \subseteq Slots /\ resultMap' = {}
    BY BoundFacts DEF CExit
  <2> QED BY <1>1, <1>2, <1>3, <2>1, <2>2 DEF CExit, CTypes
<1>5. Rendered'
  BY <1>1, <1>2, DataFacts DEF CExit, Rendered
<1> QED BY <1>4, <1>5 DEF CInv

LEMMA CStartKeeps == ASSUME CInv, CStart PROVE CInv'
<1>1. PICK n \in Slots : \E ts \in [1..n -> Targets \ Index], v \in 0..MaxVersions :
        asked' = ts /\ cVersion' = v
  BY DEF CStart
<1>2. asked' \in Seq(Targets) /\ Len(asked') = n /\ cVersion' \in 0..MaxVersions
  BY <1>1 DEF Slots
<1>3. asked = <<>> /\ Len(asked) = 0 /\ cCerts' \in BOOLEAN
  BY DEF CStart
<1>4. appended = 0 /\ n \in 1..DiffEnvs
  BY <1>3 DEF CInv, CTypes, Slots
<1>5. UNCHANGED <<configs, appended, shortened, renders, resultMap>>
  BY DEF CStart
<1>6. CTypes'
  BY <1>2, <1>3, <1>4, <1>5, ConfigAssumption DEF CInv, CTypes
<1>7. Rendered'
  BY <1>2, <1>3, <1>4, <1>5 DEF CInv, Rendered
<1> QED BY <1>6, <1>7 DEF CInv

LEMMA CAppendKeeps == ASSUME CInv, CAppend PROVE CInv'
<1>1. CASE CExit
  BY <1>1, CExitKeeps
<1>2. CASE /\ appended < Len(asked) /\ appended' = appended + 1
           /\ UNCHANGED <<configs, asked, cVersion, cCerts, shortened, renders, resultMap>>
  BY <1>2 DEF CInv, CTypes, Rendered
<1> QED BY <1>1, <1>2 DEF CAppend

(* The configuration a goroutine takes is one of the run's environments.       *)
LEMMA GenerateKeeps ==
  ASSUME CInv, NEW i \in Slots, GenerateConfigsFromVault(i)
  PROVE  CInv'
<1>1. CASE CExit
  BY <1>1, CExitKeeps
<1>2. CASE ~CExit
  <2>1. PICK v \in {cVersion, 0}, named \in BOOLEAN :
          /\ renders' = [renders EXCEPT ![i] =
               [of |-> appended, version |-> v, named |-> named, left |-> WantedTemplates]]
          /\ shortened' = shortened \cup {appended}
          /\ UNCHANGED <<configs, asked, cVersion, cCerts, appended, resultMap>>
    BY <1>2 DEF GenerateConfigsFromVault
  <2>2. appended \in 1..Len(asked) /\ appended \in Slots
    <3>1. i <= appended
      BY DEF GenerateConfigsFromVault
    <3>2. asked \in Seq(Targets) /\ Len(asked) <= DiffEnvs /\ appended \in 0..Len(asked)
      BY DEF CInv, CTypes
    <3> QED BY <3>1, <3>2, ConfigAssumption DEF Slots
  <2>3. WantedTemplates \in SUBSET Templates
    BY VaultAssumption DEF WantedTemplates
  <2>4. [of |-> appended, version |-> v, named |-> named, left |-> WantedTemplates]
          \in [of : 0..DiffEnvs, version : 0..MaxVersions, named : BOOLEAN, left : SUBSET Templates]
    BY <2>2, <2>3, VaultAssumption DEF CInv, CTypes, Slots
  <2>5. CTypes'
    BY <2>1, <2>2, <2>4 DEF CInv, CTypes
  <2>6. Rendered'
    BY <2>1, <2>2 DEF CInv, CTypes, Rendered
  <2> QED BY <2>5, <2>6 DEF CInv
<1> QED BY <1>1, <1>2

(* A rendering holds what is the target's. *)
LEMMA RenderedOwn ==
  ASSUME NEW t \in Targets, NEW p \in Templates, NEW found, \A k \in Kinds : found[k] \in Own(t)
  PROVE  \A k \in Kinds : PopulateTemplate(p, found)[k] \in Own(t)
BY DataFacts DEF PopulateTemplate

LEMMA RenderKeeps ==
  ASSUME VaultInv, CInv, NEW i \in Slots, NEW p \in Templates, Render(i, p)
  PROVE  CInv'
<1> DEFINE t == asked[renders[i].of]
           found == Stored(t, p, renders[i].version)
           Gives(data) ==
             \/ writeToFile(t, p, data) /\ UNCHANGED resultMap
             \/ messenger(i, t, p) /\ UNCHANGED configs
<1>1. /\ p \in renders[i].left
      /\ renders' = [renders EXCEPT ![i].left = @ \ {p}]
      /\ UNCHANGED <<asked, cVersion, cCerts, appended, shortened>>
  BY DEF Render
<1>2. \/ Gives(PopulateTemplate(p, found))
      \/ \E data \in Missed(found) \ {found} : Gives(PopulateTemplate(p, data))
  BY DEF Render
<1>3. renders[i].of \in 1..Len(asked) /\ asked \in Seq(Targets)
  BY <1>1 DEF CInv, CTypes, Rendered
<1>4. t \in Targets /\ renders[i].version \in 0..MaxVersions
  BY <1>3 DEF CInv, CTypes
<1> HIDE DEF t
<1>5. \A k \in Kinds : found[k] \in Own(t)
  BY <1>4, StoredOwn
<1>6. renders' \in [Slots -> [of : 0..DiffEnvs, version : 0..MaxVersions, named : BOOLEAN,
                              left : SUBSET Templates]]
      /\ \A j \in Slots : renders'[j].of = renders[j].of /\ renders'[j].left \subseteq renders[j].left
  BY <1>1 DEF CInv, CTypes
<1>7. ASSUME NEW data, \A k \in Kinds : data[k] \in Own(t), Gives(data) PROVE CInv'
  <2>1. CASE writeToFile(t, p, data) /\ UNCHANGED resultMap
    <3> DEFINE file2 == [q \in Parts |-> IF q[1] = p THEN data[q[2]] ELSE configs[t][q]]
    <3>1. configs' = [configs EXCEPT ![t] = file2]
      BY <2>1 DEF writeToFile
    <3>2. \A q \in Parts : file2[q] \in Own(t)
      BY <1>4, <1>7, BucketFacts DEF CInv, Rendered
    <3>3. file2 \in [Parts -> Data]
      BY <1>4, <3>2, DataFacts
    <3> HIDE DEF file2
    <3>4. CTypes'
      BY <1>1, <1>6, <2>1, <3>1, <3>3 DEF CInv, CTypes
    <3>5. Rendered'
      BY <1>1, <1>4, <1>6, <3>1, <3>2 DEF CInv, CTypes, Rendered
    <3> QED BY <3>4, <3>5 DEF CInv
  <2>2. CASE messenger(i, t, p) /\ UNCHANGED configs
    <3>1. resultMap' \subseteq Targets \X Templates
      BY <1>4, <2>2 DEF messenger, CInv, CTypes
    <3>2. CTypes'
      BY <1>1, <1>6, <2>2, <3>1 DEF CInv, CTypes
    <3>3. Rendered'
      BY <1>1, <1>6, <2>2 DEF CInv, Rendered
    <3> QED BY <3>2, <3>3 DEF CInv
  <2> QED BY <1>7, <2>1, <2>2
<1>8. \A data \in Missed(found) : \A k \in Kinds : data[k] \in Own(t)
  BY <1>4, <1>5, MissedOwn
<1> HIDE DEF found, Gives
<1>9. CASE Gives(PopulateTemplate(p, found))
  BY <1>4, <1>5, <1>7, <1>9, RenderedOwn
<1>10. ASSUME NEW data \in Missed(found), Gives(PopulateTemplate(p, data)) PROVE CInv'
  BY <1>4, <1>7, <1>8, <1>10, RenderedOwn
<1> QED BY <1>2, <1>9, <1>10

LEMMA CKeeps == ASSUME VaultInv, CInv, CNext PROVE CInv' /\ VaultInv'
<1>1. UNCHANGED <<published, linked, vault>> /\ faults' \in 0..MaxFaults
  BY FaultCounts DEF CNext, CStart, CAppend, CDone, GenerateConfigsFromVault, Render, VaultInv, vaultVars
<1>2. VaultInv'
  BY <1>1, VaultKeeps
<1>3. CASE CStart \/ CAppend \/ CDone
  BY <1>2, <1>3, CStartKeeps, CAppendKeeps, CExitKeeps DEF CDone
<1>4. ASSUME NEW i \in Slots, GenerateConfigsFromVault(i) PROVE CInv' /\ VaultInv'
  BY <1>2, <1>4, GenerateKeeps
<1>5. ASSUME NEW i \in Slots, NEW p \in Templates, Render(i, p) PROVE CInv' /\ VaultInv'
  BY <1>2, <1>5, RenderKeeps
<1> QED BY <1>3, <1>4, <1>5 DEF CNext

-----------------------------------------------------------------------------
(* The tools together. *)

(* Starting a tool counts it. *)
LEMMA RunsCount ==
  ASSUME ToolInv, ToolNext
  PROVE  runs' \in 0..MaxRuns
<1> DEFINE started == Running' \ Running
<1>1. IsFiniteSet({"trcx", "trcinit", "trcconfig"})
  <2>1. IsFiniteSet({"trcx"} \cup {"trcinit"})
    BY FS_Singleton, FS_AddElement
  <2>2. IsFiniteSet(({"trcx"} \cup {"trcinit"}) \cup {"trcconfig"})
    BY <2>1, FS_AddElement
  <2>3. {"trcx", "trcinit", "trcconfig"} = ({"trcx"} \cup {"trcinit"}) \cup {"trcconfig"}
    OBVIOUS
  <2> QED BY <2>2, <2>3
<1>2. IsFiniteSet(started)
  BY <1>1, FS_Subset DEF Running
<1>3. Cardinality(started) \in Nat
  BY <1>2, FS_CardinalityType
<1> HIDE DEF started
<1>4. \/ runs < MaxRuns /\ runs' = runs + 1
      \/ runs' = runs + Cardinality(started) /\ runs' <= MaxRuns
  BY DEF ToolNext, started
<1> QED BY <1>3, <1>4, ToolAssumption DEF ToolInv

LEMMA ToolInvInit ==
  /\ ToolInit => ToolInv
  /\ \A seeded \in BOOLEAN : EnteredInit(seeded) => ToolInv
<1>1. NoSeed \in [Parts -> Data] /\ \A q \in Parts : NoSeed[q] = Nothing
  BY DataFacts DEF NoSeed
<1>2. XInit => XInv
  <2> SUFFICES ASSUME XInit PROVE XInv
    OBVIOUS
  <2>1. XTypes
    BY <1>1, VaultAssumption DEF XInit, XTypes, NoDiff
  <2>2. OwnSeeds
    BY <1>1, DataFacts DEF XInit, OwnSeeds, NoDiff
  <2>3. Received
    BY DEF XInit, Received
  <2> QED BY <2>1, <2>2, <2>3 DEF XInv
<1>3. CInit => CInv
  <2> SUFFICES ASSUME CInit PROVE CInv
    OBVIOUS
  <2>1. configs \in [Targets -> [Parts -> Data]] /\ \A t \in Targets, q \in Parts : configs[t][q] = Nothing
    BY DataFacts DEF CInit, NoConfigs
  <2>2. renders \in [Slots -> [of : 0..DiffEnvs, version : 0..MaxVersions, named : BOOLEAN,
                               left : SUBSET Templates]]
        /\ \A i \in Slots : renders[i].left = {}
    BY VaultAssumption, ConfigAssumption DEF CInit, NewRender
  <2>3. asked = <<>> /\ Len(asked) = 0 /\ asked \in Seq(Targets)
    BY DEF CInit
  <2>4. CTypes
    <3>1. Len(asked) <= DiffEnvs /\ appended \in 0..Len(asked)
      BY <2>3, BoundFacts DEF CInit
    <3>2. cVersion \in 0..MaxVersions /\ cCerts \in BOOLEAN /\ shortened \subseteq Slots /\ resultMap = {}
      BY BoundFacts DEF CInit
    <3> QED BY <2>1, <2>2, <2>3, <3>1, <3>2 DEF CInit, CTypes
  <2>5. Rendered
    BY <2>1, <2>2, DataFacts DEF CInit, Rendered
  <2> QED BY <2>4, <2>5 DEF CInv
<1>4. ASSUME ToolInit PROVE ToolInv
  <2>1. VaultInv
    BY <1>4, VaultAssumption DEF ToolInit, VaultInit, VaultInv
  <2>2. InitInv
    BY <1>1, <1>4, BoundFacts, NewOneFacts DEF ToolInit, InitInit, InitInv, InitTypes, Loaded
  <2> QED BY <1>2, <1>3, <1>4, <2>1, <2>2, ToolAssumption DEF ToolInit, ToolInv
<1>5. ASSUME NEW seeded \in BOOLEAN, EnteredInit(seeded) PROVE ToolInv
  <2>1. VaultInv
    <3>1. \A b \in Buckets : <<b[1], 1>> \in Storable(b)
      BY BucketFacts, DataFacts, BoundFacts DEF Storable
    <3>2. \A b \in Buckets : vault[b] \in Seq(Storable(b)) /\ vault[b] \in Seq(Data)
      <4> SUFFICES ASSUME NEW b \in Buckets
                   PROVE  vault[b] \in Seq(Storable(b)) /\ vault[b] \in Seq(Data)
        OBVIOUS
      <4>1. <<b[1], 1>> \in Data
        BY <3>1, DataFacts DEF Storable, Own
      <4>2. vault[b] = <<>> \/ vault[b] = << <<b[1], 1>> >>
        BY <1>5 DEF EnteredInit
      <4> DEFINE d == <<b[1], 1>>
      <4>3. d \in Storable(b) /\ d \in Data /\ (vault[b] = <<>> \/ vault[b] = <<d>>)
        BY <3>1, <4>1, <4>2
      <4> HIDE DEF d
      <4>4. CASE vault[b] = <<>>
        BY <4>4
      <4>5. CASE vault[b] = <<d>>
        <5>1. <<d>> \in Seq(Storable(b)) /\ <<d>> \in Seq(Data)
          BY <4>3
        <5> QED BY <4>5, <5>1
      <4> QED BY <4>3, <4>4, <4>5
    <3>3. vault \in [Buckets -> Seq(Data)]
      BY <1>5, <3>2 DEF EnteredInit
    <3> QED BY <1>5, <3>2, <3>3, VaultAssumption DEF EnteredInit, VaultInv
  <2>2. InitInv
    BY <1>1, <1>5, BoundFacts, NewOneFacts DEF EnteredInit, InitInv, InitTypes, Loaded
  <2>3. XInv
    <3>1. /\ EnteredSeeds \in [Targets -> [Parts -> Data]]
          /\ \A t \in Targets, q \in Parts : EnteredSeeds[t][q] \in Given(t)
      BY DataFacts, BoundFacts DEF EnteredSeeds
    <3>2. /\ seeds \in [Targets -> [Parts -> Data]]
          /\ \A t \in Targets, q \in Parts : seeds[t][q] \in Own(t)
          /\ written \subseteq Targets
          /\ \A t \in written, q \in Parts : seeds[t][q] # Nothing
      <4>1. CASE seeded
        BY <1>1, <1>5, <4>1, DataFacts DEF EnteredInit
      <4>2. CASE ~seeded
        BY <1>5, <3>1, <4>2, DataFacts DEF EnteredInit, Given
      <4> QED BY <4>1, <4>2
    <3>3. XTypes
      BY <1>5, <3>2, VaultAssumption DEF EnteredInit, XTypes, NoDiff
    <3>4. OwnSeeds /\ Received
      BY <1>5, <3>2 DEF EnteredInit, OwnSeeds, Received, NoDiff
    <3> QED BY <3>3, <3>4 DEF XInv
  <2>4. CInv /\ runs \in 0..MaxRuns
    BY <1>3, <1>5, BoundFacts DEF EnteredInit
  <2> QED BY <2>1, <2>2, <2>3, <2>4 DEF ToolInv
<1> QED BY <1>4, <1>5

LEMMA ToolInvNext == ASSUME ToolInv, ToolNext PROVE ToolInv'
<1>1. runs' \in 0..MaxRuns
  BY RunsCount
<1>2. UNCHANGED initVars => InitInv'
  BY DEF ToolInv, InitInv, InitTypes, Loaded, initVars
<1>3. UNCHANGED cVars => CInv'
  BY DEF ToolInv, CInv, CTypes, Rendered, cVars, cRun
<1>4. CASE Publish /\ UNCHANGED <<xVars, initVars, cVars>>
  BY <1>1, <1>2, <1>3, <1>4, PublishKeeps, XStays DEF ToolInv
<1>5. CASE XNext /\ UNCHANGED <<initVars, cVars>>
  BY <1>1, <1>2, <1>3, <1>5, XKeeps DEF ToolInv
<1>6. CASE InitNext /\ UNCHANGED cVars
  BY <1>1, <1>3, <1>6, InitKeeps DEF ToolInv
<1>7. CASE CNext /\ UNCHANGED <<xVars, initVars>>
  BY <1>1, <1>2, <1>7, CKeeps, XStays DEF ToolInv
<1> QED BY <1>4, <1>5, <1>6, <1>7 DEF ToolNext

(* The tools and a rotation share no state. *)
LEMMA InvAlways == Spec => [](ToolInv /\ RotationInv)
<1>1. Init => ToolInv /\ RotationInv
  BY ToolInvInit, RotationInvInit DEF Init
<1>2. ToolInv /\ RotationInv /\ [Next]_vars => (ToolInv /\ RotationInv)'
  <2>1. ASSUME ToolInv, RotationInv, ToolNext, UNCHANGED rotationVars
        PROVE  ToolInv' /\ RotationInv'
    BY <2>1, ToolInvNext, RotationInvNext
  <2>2. ASSUME ToolInv, RotationInv, [RotationNext]_rotationVars, UNCHANGED toolVars
        PROVE  ToolInv' /\ RotationInv'
    <3>1. VaultInv' /\ XInv'
      BY <2>2, XStays DEF ToolInv, toolVars, vaultVars, VaultInv
    <3>2. InitInv'
      BY <2>2 DEF ToolInv, toolVars, InitInv, InitTypes, Loaded, initVars
    <3>3. CInv'
      BY <2>2 DEF ToolInv, toolVars, CInv, CTypes, Rendered, cVars, cRun
    <3> QED BY <2>2, <3>1, <3>2, <3>3, RotationInvNext DEF ToolInv, toolVars
  <2> QED BY <2>1, <2>2 DEF Next, vars
<1> QED BY <1>1, <1>2, PTL DEF Spec

-----------------------------------------------------------------------------
(* The state of the tools and of a rotation is well formed.                  *)
THEOREM ToolsTypeCorrect == Spec => []TypeOK
<1>1. ToolInv => ToolTypeOK
  <2> SUFFICES ASSUME ToolInv PROVE ToolTypeOK
    OBVIOUS
  <2>1. diff.on \in BOOLEAN /\ \A t \in Targets : sections[t] \subseteq Results
    BY DEF ToolInv, XInv, XTypes
  <2> QED BY <2>1 DEF ToolInv, VaultInv, XInv, XTypes, InitInv, InitTypes, CInv, CTypes, ToolTypeOK
<1>2. RotationInv => RotationTypeOK
  BY DEF RotationInv
<1> QED BY <1>1, <1>2, InvAlways, PTL DEF TypeOK

(* What was entered for one target is never found under another: the receivers *)
(* of trcx sort the results of all generators, and trcinit's modifier loses    *)
(* the section of the file before, comes out of the cache or is made anew, and *)
(* is pointed to the target of every file.                                     *)
THEOREM DataStaysOwn == Spec => []OwnData
<1>1. ToolInv => OwnData
  <2> SUFFICES ASSUME ToolInv, NEW t \in Targets
               PROVE  /\ \A q \in Parts : seeds[t][q] \in Own(t) /\ configs[t][q] \in Own(t)
                      /\ \A b \in Buckets : b[1] = t => \A i \in DOMAIN vault[b] : vault[b][i] \in Own(t)
                      /\ \A c \in diff.got : c[1] = t => \A q \in Parts : c[2][q] \in Own(t)
    BY DEF OwnData, Own
  <2>1. \A b \in Buckets : b[1] = t => \A i \in DOMAIN vault[b] : vault[b][i] \in Own(t)
    <3> SUFFICES ASSUME NEW b \in Buckets, b[1] = t, NEW i \in DOMAIN vault[b]
                 PROVE  vault[b][i] \in Own(t)
      OBVIOUS
    <3>1. vault[b] \in Seq(Storable(b))
      BY DEF ToolInv, VaultInv
    <3>2. vault[b][i] \in Storable(b)
      BY <3>1
    <3> QED BY <3>2 DEF Storable
  <2> QED BY <2>1, DataFacts DEF ToolInv, XInv, XTypes, OwnSeeds, CInv, Rendered
<1> QED BY <1>1, InvAlways, PTL

(* A seed that trcx writes or compares has every part: wg.Done comes after the  *)
(* result has been received.                                                    *)
THEOREM SeedsAreWhole == Spec => []WholeSeeds
<1>1. ToolInv => WholeSeeds
  BY DataFacts DEF ToolInv, XInv, XTypes, OwnSeeds, WholeSeeds, Given
<1> QED BY <1>1, InvAlways, PTL

(* The text <Enter Secret Here> never becomes the secret of an environment.     *)
THEOREM PlaceholdersStayOut == Spec => []NoPlaceholder
<1>1. ToolInv => NoPlaceholder
  <2> SUFFICES ASSUME ToolInv, NEW b \in Buckets, Guarded(b), NEW i \in DOMAIN vault[b]
               PROVE  vault[b][i] # Default
    BY DEF NoPlaceholder, Guarded
  <2>1. vault[b] \in Seq(Storable(b))
    BY DEF ToolInv, VaultInv
  <2>2. vault[b][i] \in Storable(b)
    BY <2>1
  <2> QED BY <2>2 DEF Storable
<1> QED BY <1>1, InvAlways, PTL

(* A rotation stores tokens that live, beside the tools as by itself.            *)
THEOREM RotatedTokensLive == Spec => []TokensLive
<1>1. RotationInv => TokensLive
  BY DEF RotationInv
<1> QED BY <1>1, InvAlways, PTL
=============================================================================
