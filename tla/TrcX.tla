--------------------------------- MODULE TrcX ---------------------------------
(***************************************************************************)
(* trcx, which makes a seed file for each target from the templates on     *)
(* disk and what vault has.  A run starts a generator for each target (an  *)
(* environment, several with -diff, or the sections of an index); a        *)
(* generator starts a worker for each template and a receiver.  The        *)
(* results of all the workers go through one channel: a receiver keeps     *)
(* those of its own environment and section and puts the others back, so   *)
(* that they come in any order and the channel is a set here.  A generator *)
(* that has ended leaves its receiver behind, which only puts back.        *)
(*                                                                         *)
(* The state of one run; when the process exits what it has not written is *)
(* gone.  Not here: -dynamicPath with %s, whose generators cannot be told  *)
(* apart in the channel, and the fields that -seedPath encrypts.           *)
(***************************************************************************)
EXTENDS VaultKV

VARIABLES
  seeds,     \* the seed file of each target: what each part of it gives
  written,   \* the targets that have a seed file
  xAt,       \* where each generator is
  xVersion,  \* the version it reads; 0 for the latest
  working,   \* the templates whose worker runs
  open,      \* the templates its wait group counts
  results,   \* templateResultChan
  sections,  \* the results each generator has received
  diff       \* the run compares; the seeds the comparison has

xRun  == <<xAt, xVersion, working, open, results, sections>>
xVars == <<seeds, written, xAt, xVersion, working, open, results, sections, diff>>

NoSeed   == [q \in Parts |-> Nothing]
NoDiff   == [on |-> FALSE, got |-> {}]
Results  == [of : Targets, template : Templates, data : [Kinds -> Data]]

XInit ==
  /\ seeds = [t \in Targets |-> NoSeed] /\ written = {}
  /\ xAt = [t \in Targets |-> "idle"] /\ xVersion = [t \in Targets |-> 0]
  /\ working = [t \in Targets |-> {}] /\ open = [t \in Targets |-> {}]
  /\ results = {} /\ sections = [t \in Targets |-> {}] /\ diff = NoDiff

XIdle == \A t \in Targets : xAt[t] = "idle"

\* The process ends: os.Exit in any generator ends them all.
XExit ==
  /\ xAt' = [t \in Targets |-> "idle"] /\ xVersion' = [t \in Targets |-> 0]
  /\ working' = [t \in Targets |-> {}] /\ open' = [t \in Targets |-> {}]
  /\ results' = {} /\ sections' = [t \in Targets |-> {}] /\ diff' = NoDiff

\* CommonMain, the flags that exclude each other: a version is asked for one target;
\* with -diff there are several environments, which are not compared with
\* themselves, and without it one.
Compatible(ts, version, compare) ==
  /\ version # 0 => Cardinality(ts) = 1
  /\ compare => Cardinality(ts) > 1
  /\ ts \cap Index = {} => (compare \/ Cardinality(ts) = 1)

\* An index is made section by section, and apart from the environments.
Sectioned(ts) == ts \subseteq Index \/ ts \cap Index = {}

\* A generator for each environment or section.
XStart ==
  /\ XIdle
  /\ \E ts \in (SUBSET Targets) \ {{}}, v \in 0..MaxVersions, d \in BOOLEAN :
       /\ Compatible(ts, v, d) /\ Sectioned(ts)
       /\ xAt' = [t \in Targets |-> IF t \in ts THEN "clean" ELSE "idle"]
       /\ xVersion' = [t \in Targets |-> IF t \in ts THEN v ELSE 0]
       /\ diff' = [on |-> d, got |-> {}]
  /\ UNCHANGED <<seeds, written, working, open, results, sections, vaultVars>>

\* GenerateSeedsFromVault with -clean removes the seed file and is done.
XClean(t) ==
  /\ xAt[t] = "clean"
  /\ \/ seeds' = [seeds EXCEPT ![t] = NoSeed] /\ written' = written \ {t}
        /\ xAt' = [xAt EXCEPT ![t] = "end"]
     \/ xAt' = [xAt EXCEPT ![t] = "paths"] /\ UNCHANGED <<seeds, written>>
  /\ UNCHANGED <<xVersion, working, open, results, sections, diff, vaultVars>>

\* A version is checked against those that vault has, and the process ends with one
\* that is out of bounds, or whose metadata cannot be read.
VersionInBounds(t) == xVersion[t] = 0 \/ BoundCheck(t, xVersion[t])
XVersionExit(t) ==
  /\ xAt[t] = "paths" /\ xVersion[t] # 0
  /\ \/ ~BoundCheck(t, xVersion[t]) /\ UNCHANGED faults
     \/ Fault
  /\ XExit
  /\ UNCHANGED <<seeds, written, published, linked, vault>>

\* GenerateSeedSectionFromVaultRaw: a worker for each template that the filters
\* leave.  Without services for the target the generator ends and has written
\* nothing.
XPaths(t) ==
  /\ xAt[t] = "paths"
  /\ \/ /\ VersionInBounds(t)
        /\ xAt' = [xAt EXCEPT ![t] = "wait"]
        /\ working' = [working EXCEPT ![t] = Templates]
        /\ open' = [open EXCEPT ![t] = Templates]
     \/ xAt' = [xAt EXCEPT ![t] = "end"] /\ UNCHANGED <<working, open>>
  /\ UNCHANGED <<xVersion, results, sections, diff, seeds, written, vaultVars>>

\* parseAndSetSection: what the store has overrides what the template gives, but for
\* a certificate.
parseAndSetSection(q, found) == IF found = Nothing \/ q \in CertData THEN Default ELSE found

\* Parse, for the values and the secrets that a template names.
Parse(p, found) == [k \in Kinds |-> parseAndSetSection(<<p, k>>, found[k])]

\* ToSeed, and what the worker adds to tell its result from those of the others.
ToSeed(t, p, found) == [of |-> t, template |-> p, data |-> Parse(p, found)]

\* A worker reads what vault has for its template, the error of which it drops, and
\* makes its result.  A modifier that cannot be made, or a template that cannot be
\* parsed, ends the process.
\* Mutant of Worker: done before the result is received.
EarlyDone(t, p) ==
  /\ p \in working[t]
  /\ working' = [working EXCEPT ![t] = @ \ {p}]
  /\ open' = [open EXCEPT ![t] = @ \ {p}]
  /\ results' = results \cup {ToSeed(t, p, Stored(t, p, xVersion[t]))}
  /\ UNCHANGED <<xAt, xVersion, sections, diff, seeds, written, vaultVars>>
Worker(t, p) ==
  /\ p \in working[t]
  /\ LET found == Stored(t, p, xVersion[t])
         Sends(data) ==
           /\ working' = [working EXCEPT ![t] = @ \ {p}]
           /\ results' = results \cup {ToSeed(t, p, data)}
           /\ UNCHANGED <<xAt, xVersion, open, sections, diff>>
     IN  \/ Sends(found) /\ UNCHANGED faults
         \/ Fault /\ \E data \in Missed(found) \ {found} : Sends(data)
         \/ Fault /\ XExit
  /\ UNCHANGED <<seeds, written, published, linked, vault>>

\* The receiver compares the environment and the section.
Mine(t, r) == r.of = t
Receive(t) ==
  /\ xAt[t] = "wait"
  /\ \E r \in results :
       /\ Mine(t, r)
       /\ results' = results \ {r}
       /\ sections' = [sections EXCEPT ![t] = @ \cup {r}]
       /\ open' = [open EXCEPT ![t] = @ \ {r.template}]
  /\ UNCHANGED <<xAt, xVersion, working, diff, seeds, written, vaultVars>>

\* CombineSection merges what was received by service and key.
CombineSection(rs) ==
  [q \in Parts |->
     LET of == {r \in rs : r.template = q[1]}
     IN  IF of = {} THEN Nothing ELSE (CHOOSE r \in of : TRUE).data[q[2]]]

\* GenerateSeedsFromVaultRaw: the sections received make a seed.
GenerateSeedsFromVaultRaw(t) == CombineSection(sections[t])

\* wg.Wait, and the seed is written, or given to the comparison; with -certs the
\* certificates are written to files instead, which are not followed further.
WriteSeed(t) ==
  /\ xAt[t] = "wait" /\ open[t] = {}
  /\ xAt' = [xAt EXCEPT ![t] = "end"]
  /\ sections' = [sections EXCEPT ![t] = {}]
  /\ \/ UNCHANGED <<seeds, written, diff>>
     \/ /\ diff.on
        /\ diff' = [diff EXCEPT !.got = @ \cup {<<t, GenerateSeedsFromVaultRaw(t)>>}]
        /\ UNCHANGED <<seeds, written>>
     \/ /\ ~diff.on /\ UNCHANGED diff
        /\ seeds' = [seeds EXCEPT ![t] = GenerateSeedsFromVaultRaw(t)]
        /\ written' = written \cup {t}
  /\ UNCHANGED <<xVersion, working, open, results, vaultVars>>

\* All generators have ended; the comparison waits three seconds for what has not
\* come through the channel, which is closed by then.
XDone ==
  /\ ~XIdle /\ \A t \in Targets : xAt[t] \in {"idle", "end"}
  /\ XExit
  /\ UNCHANGED <<seeds, written, vaultVars>>

XNext ==
  \/ XStart \/ XDone
  \/ \E t \in Targets :
       \/ XClean(t) \/ XVersionExit(t) \/ XPaths(t) \/ Receive(t) \/ WriteSeed(t)
       \/ \E p \in Templates : Worker(t, p)
=============================================================================
