------------------------------- MODULE ToolChain -------------------------------
(***************************************************************************)
(* The tools of an operator on one vault: trcpub publishes templates, trcx *)
(* makes seed files, the operator edits them, trcinit seeds vault and      *)
(* trcconfig renders from it.  Each tool is a process of its own, and its  *)
(* calls to vault come between those of the others; trcpub is one step.     *)
(***************************************************************************)
EXTENDS TrcInit, TrcConfig

CONSTANTS
  Busy,     \* bound: tools that run at a time
  MaxRuns   \* bound: tools started, in a behaviour

ASSUME ToolAssumption == Busy \in Nat /\ MaxRuns \in Nat \ {0}

VARIABLE runs  \* tools started so far

toolVars == <<runs, vaultVars, xVars, initVars, cVars>>

ToolInit == runs = 0 /\ VaultInit /\ XInit /\ InitInit /\ CInit

\* The tools that run.
Running ==
  {tool \in {"trcx", "trcinit", "trcconfig"} :
     \/ tool = "trcx" /\ ~XIdle
     \/ tool = "trcinit" /\ initAt # "idle"
     \/ tool = "trcconfig" /\ asked # <<>>}

ToolNext ==
  \/ /\ Cardinality(Running) < Busy /\ runs < MaxRuns /\ runs' = runs + 1
     /\ Publish /\ UNCHANGED <<xVars, initVars, cVars>>
  \/ /\ \/ XNext /\ UNCHANGED <<initVars, cVars>>
        \/ InitNext /\ UNCHANGED cVars
        \/ CNext /\ UNCHANGED <<xVars, initVars>>
     /\ Cardinality(Running') <= Busy
     /\ runs' = runs + Cardinality(Running' \ Running) /\ runs' <= MaxRuns

-----------------------------------------------------------------------------
(* Properties. *)

ToolTypeOK ==
  /\ runs \in 0..MaxRuns
  /\ published \subseteq Templates /\ linked \subseteq Templates /\ faults \in 0..MaxFaults
  /\ vault \in [Buckets -> Seq(Data)]
  /\ seeds \in [Targets -> [Parts -> Data]] /\ written \subseteq Targets
  /\ xAt \in [Targets -> {"idle", "clean", "paths", "wait", "end"}]
  /\ xVersion \in [Targets -> 0..MaxVersions]
  /\ working \in [Targets -> SUBSET Templates] /\ open \in [Targets -> SUBSET Templates]
  /\ results \subseteq Results /\ \A t \in Targets : sections[t] \subseteq Results
  /\ rounds \in [Targets -> 0..Rounds]
  /\ initAt \in {"idle", "connected", "files", "data", "write", "seeded"}
  /\ files \subseteq Targets /\ file \in Targets \cup {NoFile} /\ loaded \in [Parts -> Data]
  /\ entries \subseteq Parts /\ links \subseteq Templates /\ linkedNow \subseteq Templates
  /\ modifier \in [env : Targets \cup {"secret"}, section : Index \cup {NoSection}]
  /\ wantCerts \in BOOLEAN /\ diff.on \in BOOLEAN
  /\ configs \in [Targets -> [Parts -> Data]]
  /\ cCerts \in BOOLEAN /\ appended \in 0..Len(asked) /\ shortened \subseteq Slots
  /\ resultMap \subseteq Targets \X Templates

\* What was entered for one target is never found under another: not in vault, not
\* in a seed file or a comparison, and not in a rendered file.  The results of all
\* the generators of a run share one channel; and the file of an environment and
\* those of its sections take one modifier, out of the cache, that must lose the
\* section of the file before (NewModifier) and be pointed to the next.
OwnData ==
  LET Own(t) == {d \in Data : d[1] \in {t, "template", "nothing"}}
  IN  \A t \in Targets :
        /\ \A q \in Parts : seeds[t][q] \in Own(t) /\ configs[t][q] \in Own(t)
        /\ \A b \in Buckets : b[1] = t => \A i \in DOMAIN vault[b] : vault[b][i] \in Own(t)
        /\ \A c \in diff.got : c[1] = t => \A q \in Parts : c[2][q] \in Own(t)

\* A seed file, and a seed that is compared, has the result of every template: the
\* wait group of a generator is done only with what its receiver has received.
WholeSeeds ==
  /\ \A t \in written, q \in Parts : seeds[t][q] # Nothing
  /\ \A c \in diff.got, q \in Parts : c[2][q] # Nothing

\* The text <Enter Secret Here> is never the secret of an environment, though trcx
\* puts it into a seed whenever it cannot read a secret; a seed that has it is
\* refused (SeedVaultFromData), index data is not.
NoPlaceholder ==
  \A b \in Buckets :
    b[1] \notin Index /\ b[3] = "super-secrets" /\ <<b[2], b[3]>> \notin CertData =>
      \A i \in DOMAIN vault[b] : vault[b][i] # Default

\* WriteData: "takes entry path and date from each iteration of writeStack in
\* SeedVaultFromData and writes to vault".  A file that is reported complete is in
\* vault, every entry of it.
SeedWritten ==
  initAt = "seeded" /\ ~wantCerts =>
    \A q \in Parts \ CertData : loaded[q] # Nothing => Latest(<<file, q[1], q[2]>>) = loaded[q]
=============================================================================
