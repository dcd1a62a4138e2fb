------------------------------- MODULE TrcConfig -------------------------------
(***************************************************************************)
(* trcconfig, which renders the templates on disk with what vault has for  *)
(* a target, and with -diff compares the renderings of several.  A run     *)
(* appends a configuration for each environment to a slice and starts a    *)
(* goroutine, which takes the LAST configuration of the slice when it      *)
(* begins, so that two may render the same environment and none another.   *)
(* A goroutine renders its templates side by side; a rendering goes to a   *)
(* file, or through the result channel to the map that is compared.        *)
(***************************************************************************)
EXTENDS VaultKV

CONSTANT DiffEnvs  \* bound: environments of a comparison (4)

ASSUME ConfigAssumption == DiffEnvs \in Nat \ {0}

VARIABLES
  configs,   \* the files the run has rendered: what each part of them holds
  asked,     \* the environments of the run, in order
  cVersion,  \* the version asked for; 0 for the latest
  cCerts,    \* -certs
  appended,  \* how many of the environments are in the slice
  shortened, \* those whose configuration has lost its version
  renders,   \* what each goroutine renders: a configuration, and what is left of it
  resultMap  \* the results the comparison has

cRun  == <<asked, cVersion, cCerts, appended, shortened, renders, resultMap>>
cVars == <<configs, cRun>>

NewRender == [of |-> 0, version |-> 0, named |-> FALSE, left |-> {}]
Slots     == 1..DiffEnvs
NoConfigs == [t \in Targets |-> [q \in Parts |-> Nothing]]

CInit ==
  /\ configs = NoConfigs /\ asked = <<>> /\ cVersion = 0 /\ cCerts = FALSE
  /\ appended = 0 /\ shortened = {} /\ renders = [i \in Slots |-> NewRender] /\ resultMap = {}

\* The process ends; the files it leaves are not followed further.
CExit ==
  /\ configs' = NoConfigs /\ asked' = <<>> /\ cVersion' = 0 /\ cCerts' = FALSE
  /\ appended' = 0 /\ shortened' = {} /\ renders' = [i \in Slots |-> NewRender] /\ resultMap' = {}

\* The environments of a run, several with -diff only and none of them twice; a
\* version is asked for one of them here.
Comparable(ts, version) ==
  /\ \A i, j \in DOMAIN ts : ts[i] = ts[j] => i = j
  /\ Len(ts) > 1 => version = 0

\* CommonMain: the flags.
CStart ==
  /\ asked = <<>>
  /\ \E n \in Slots : \E ts \in [1..n -> Targets \ Index], v \in 0..MaxVersions :
       Comparable(ts, v) /\ asked' = ts /\ cVersion' = v
  /\ cCerts' \in BOOLEAN
  /\ UNCHANGED <<configs, appended, shortened, renders, resultMap, vaultVars>>

\* Authentication for an environment, its configuration and its goroutine; a
\* failure ends the run, and the goroutines with it.
\* Mutant of CAppend: one environment too many.
AppendOneMore ==
  /\ asked # <<>> /\ appended <= Len(asked)
  /\ \/ appended' = appended + 1
        /\ UNCHANGED <<configs, asked, cVersion, cCerts, shortened, renders, resultMap, faults>>
     \/ Fault /\ CExit
  /\ UNCHANGED <<published, linked, vault>>
CAppend ==
  /\ appended < Len(asked)
  /\ \/ appended' = appended + 1
        /\ UNCHANGED <<configs, asked, cVersion, cCerts, shortened, renders, resultMap, faults>>
     \/ Fault /\ CExit
  /\ UNCHANGED <<published, linked, vault>>

\* The certificates, or what is no certificate.
WantedTemplates == IF cCerts THEN Certs ELSE Templates \ Certs

\* GenerateConfigsFromVault: the goroutine takes the last configuration, and the
\* version off its environment, the second that takes it finding none; the token
\* must have the environment's policy, and the version be within bounds.
GenerateConfigsFromVault(i) ==
  /\ i <= appended /\ renders[i].of = 0
  /\ LET s == appended
         first == s \notin shortened
         version == IF first THEN cVersion ELSE 0
     IN  \/ /\ version = 0 \/ BoundCheck(asked[s], version)
            /\ renders' = [renders EXCEPT ![i] =
                 [of |-> s, version |-> version, named |-> first, left |-> WantedTemplates]]
            /\ shortened' = shortened \cup {s}
            /\ UNCHANGED <<configs, asked, cVersion, cCerts, appended, resultMap, faults>>
         \/ version # 0 /\ ~BoundCheck(asked[s], version) /\ CExit /\ UNCHANGED faults
         \/ Fault /\ CExit
  /\ UNCHANGED <<published, linked, vault>>

\* A key that has no value stays empty, and with no value at all the template is the
\* rendering; a certificate is there with the values that describe it only.
PopulateTemplate(p, found) ==
  [k \in Kinds |->
     IF p \in Certs /\ (k # CertKind \/ found["values"] = Nothing) THEN Nothing ELSE found[k]]

\* A rendering replaces what the file held.
writeToFile(t, p, data) ==
  configs' = [configs EXCEPT ![t] = [q \in Parts |-> IF q[1] = p THEN data[q[2]] ELSE @[q]]]

\* The messenger drops a result when the file it is compared with cannot be read,
\* and a result under a name without version is not looked up.
messenger(i, t, p) ==
  \/ renders[i].named /\ resultMap' = resultMap \cup {<<t, p>>}
  \/ UNCHANGED resultMap

\* A template of a goroutine: a certificate goes to its file, if there is one, and
\* anything else to its file or to the comparison.
Render(i, p) ==
  /\ p \in renders[i].left
  /\ renders' = [renders EXCEPT ![i].left = @ \ {p}]
  /\ LET t == asked[renders[i].of]
         found == Stored(t, p, renders[i].version)
         Gives(data) ==
           \/ (cCerts \/ Len(asked) = 1) /\ writeToFile(t, p, data) /\ UNCHANGED resultMap
           \/ ~cCerts /\ Len(asked) > 1 /\ messenger(i, t, p) /\ UNCHANGED configs
     IN  \/ Gives(PopulateTemplate(p, found)) /\ UNCHANGED faults
         \/ Fault /\ \E data \in Missed(found) \ {found} : Gives(PopulateTemplate(p, data))
  /\ UNCHANGED <<asked, cVersion, cCerts, appended, shortened, published, linked, vault>>

\* All have rendered; DiffHelper waits five seconds for results that are missing
\* and compares what there is.
CDone ==
  /\ asked # <<>> /\ appended = Len(asked)
  /\ \A i \in 1..appended : renders[i].of # 0 /\ renders[i].left = {}
  /\ CExit /\ UNCHANGED vaultVars

CNext ==
  \/ CStart \/ CAppend \/ CDone
  \/ \E i \in Slots :
       \/ GenerateConfigsFromVault(i)
       \/ \E p \in Templates : Render(i, p)
=============================================================================
