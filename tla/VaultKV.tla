------------------------------- MODULE VaultKV -------------------------------
(***************************************************************************)
(* The key-value store in vault as Modifier.go reads and writes it for the *)
(* configuration tools.  A template in vault is its file, which trcpub     *)
(* writes, and its links, which a seed writes; both are the same for every *)
(* environment.  What a link leads to, a bucket of values or of secrets,   *)
(* is kept for each target: an environment, or an index section of one.    *)
(* Every write adds a version.                                             *)
(*                                                                         *)
(* A datum is what an operator entered for a target, numbered by the round *)
(* it was entered in, or what the template itself gives: the default of a  *)
(* value, and the text <Enter Secret Here> for a secret.                   *)
(***************************************************************************)
EXTENDS Naturals, Sequences, FiniteSets

CONSTANTS
  Targets,       \* environments and index sections
  Index,         \* the sections, all of one environment,
  IndexEnv,      \* which is this one
  Templates,     \* of the project
  Certs,         \* the templates that describe a certificate
  CertKind,      \* where they have it, among the values or the secrets
  Rounds,        \* bound: how often an operator enters data for a target
  MaxVersions,   \* bound: versions of a bucket
  MaxFaults,     \* bound: calls that fail, in a behaviour
  WriteRetries   \* of Write (3)

Kinds == {"values", "super-secrets"}

ASSUME VaultAssumption ==
  /\ CertKind \in Kinds
  /\ Index \subseteq Targets /\ Certs \subseteq Templates
  /\ Index # {} => IndexEnv \in Targets \ Index
  /\ Rounds \in Nat \ {0} /\ {MaxVersions, MaxFaults, WriteRetries} \subseteq Nat
  /\ {"template", "nothing", "secret", "nosection"} \cap Targets = {}

VARIABLES
  published,  \* templates whose file vault has
  linked,     \* templates whose links vault has
  vault,      \* the versions of each bucket, oldest first
  faults      \* calls that failed so far

vaultVars == <<published, linked, vault, faults>>

Parts    == Templates \X Kinds
CertData == Certs \X {CertKind}
Buckets  == Targets \X Templates \X Kinds
Default  == <<"template", 0>>
Nothing  == <<"nothing", 0>>
Entered  == Targets \X (1..Rounds)
Data     == Entered \cup {Default, Nothing}

VaultInit ==
  /\ published = {} /\ linked = {} /\ faults = 0
  /\ vault = [b \in Buckets |-> <<>>]

Fault == faults < MaxFaults /\ faults' = faults + 1

\* Write asks again, up to WriteRetries times, after an answer that did not come:
\* the attempts before may have been carried out.
Write(b, d) ==
  \E lost \in 0..WriteRetries :
     /\ faults + lost <= MaxFaults /\ Len(vault[b]) + lost < MaxVersions
     /\ vault' = [vault EXCEPT ![b] = @ \o [i \in 1..(lost + 1) |-> d]]
     /\ faults' = faults + lost

\* No attempt was answered, or vault refused.
WriteFails(b, d) ==
  /\ Fault
  /\ \/ UNCHANGED vault
     \/ Len(vault[b]) < MaxVersions /\ vault' = [vault EXCEPT ![b] = Append(@, d)]

\* ReadData asks eight times and then gives the error; what is absent is no
\* error.  Version 0 is the latest; one that is not there is absent.
Latest(b) == IF vault[b] = <<>> THEN Nothing ELSE vault[b][Len(vault[b])]
ReadData(b, version) ==
  IF version = 0 THEN Latest(b)
  ELSE IF version \in DOMAIN vault[b] THEN vault[b][version] ELSE Nothing

\* GetVersionValues: the versions of a kind, of all templates of the target together.
GetVersionValues(t, k) == UNION {DOMAIN vault[<<t, p, k>>] : p \in Templates}

\* The versions of the secrets, or of the values when there are no secrets.
GetProjectVersions(t) ==
  IF GetVersionValues(t, "super-secrets") # {}
  THEN GetVersionValues(t, "super-secrets") ELSE GetVersionValues(t, "values")

\* BoundCheck refuses when no version is known, and beyond the latest of any
\* template; versions start at 1 and none is ever dropped here.
BoundCheck(t, version) == \E v \in GetProjectVersions(t) : version <= v

\* GetPathsFromProject finds a template in vault by its links.
GetPathsFromProject == linked

\* ConfigDataStore.Init for a template, without faults: a key whose link or whose
\* bucket is missing has no value.
Stored(t, p, version) ==
  [k \in Kinds |-> IF p \in GetPathsFromProject THEN ReadData(<<t, p, k>>, version) ELSE Nothing]

\* With a read of the links that fails the store is empty, with a read of a bucket
\* that fails its keys have no value.
Missed(found) == {[k \in Kinds |-> IF k \in lost THEN Nothing ELSE found[k]] : lost \in SUBSET Kinds}

\* UploadTemplates (trcpub) writes a template's file and the defaults in it, whose
\* path no link leads to; it ends at a failure, and the templates before it stay.
Publish ==
  /\ \/ published' = Templates /\ UNCHANGED faults
     \/ Fault /\ \E ps \in SUBSET Templates : published' = published \cup ps
  /\ UNCHANGED <<linked, vault>>
=============================================================================
