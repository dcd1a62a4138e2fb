-------------------------------- MODULE TrcInit --------------------------------
(***************************************************************************)
(* trcinit as it seeds vault from seed files, and the operator who edits   *)
(* the files that trcx made and adds the certificates.  A run takes the    *)
(* files of an environment one after the other; a file is decomposed into  *)
(* entries, which are written in no particular order: the links of the     *)
(* templates, the values, and the secrets, each below the target's own     *)
(* path.  Where the modifier points is part of the state, for one file     *)
(* after another takes the same modifier out of the cache.  One that       *)
(* WriteData makes anew points to "secret", which no tool reads, and what  *)
(* is written through it is not kept here.                                 *)
(***************************************************************************)
EXTENDS TrcX

VARIABLES
  rounds,     \* how often the operator has entered data for a target
  initAt,     \* where the run is
  wantCerts,  \* -certs
  files,      \* the targets whose file is still to come
  file,       \* the target being seeded, or NoFile
  loaded,     \* what its file gave, the certificates read in
  entries,    \* the parts still to be written
  links,      \* the templates whose links are still to be written
  linkedNow,  \* templateWritten: the templates this process has written
  modifier    \* the environment and the section path of the modifier, at hand or in the cache

initVars == <<rounds, initAt, wantCerts, files, file, loaded, entries, links, linkedNow, modifier>>
initRun  == <<wantCerts, files, file, loaded, entries, links, linkedNow, modifier>>

NoFile    == "none"
NoSection == "nosection"
NewOne    == [env |-> "secret", section |-> NoSection]

\* The path below which a modifier writes.
PathOf(m) == IF m.section = NoSection THEN m.env ELSE m.section
EnvOf(t)  == IF t \in Index THEN IndexEnv ELSE t

\* NewModifier: one that comes out of the cache keeps its environment only.
\* Mutant of NewModifierFrom: the section of the last file stays.
NewModifierAsItIs(m) == m
NewModifierFrom(m) == [m EXCEPT !.section = NoSection]

\* SeedVaultFromData points it to the file: Env always, SectionPath for a section.
Pointed(m, t) == [env |-> EnvOf(t), section |-> IF t \in Index THEN t ELSE m.section]

InitInit ==
  /\ rounds = [t \in Targets |-> 0] /\ initAt = "idle" /\ wantCerts = FALSE
  /\ files = {} /\ file = NoFile /\ loaded = NoSeed
  /\ entries = {} /\ links = {} /\ linkedNow = {} /\ modifier = NewOne

\* The operator enters data into a seed file, and renews the certificate files of
\* the environment.
EditSeed(t) ==
  /\ t \in written /\ rounds[t] < Rounds
  /\ rounds' = [rounds EXCEPT ![t] = @ + 1]
  /\ seeds' = [seeds EXCEPT ![t] =
                 [q \in Parts |-> IF q \in CertData \/ @[q] = Nothing THEN @[q] ELSE <<t, rounds'[t]>>]]
  /\ UNCHANGED <<initAt, initRun, written, xRun, diff, vaultVars>>

\* The process ends.
InitExit ==
  /\ initAt' = "idle" /\ wantCerts' = FALSE /\ files' = {} /\ file' = NoFile /\ loaded' = NoSeed
  /\ entries' = {} /\ links' = {} /\ linkedNow' = {} /\ modifier' = NewOne
  /\ UNCHANGED rounds

\* The flags, authentication and the connection to vault.
InitStart ==
  /\ initAt = "idle" /\ initAt' = "connected"
  /\ wantCerts' \in BOOLEAN
  /\ UNCHANGED <<rounds, files, file, loaded, entries, links, linkedNow, modifier, xVars, vaultVars>>

\* The token must be that of the environment.  The run has the file of the
\* environment and those of its sections, fewer with a filter or a dynamic path;
\* -base makes no difference, for CheckInitFlags looks at it before the flags are
\* parsed.
InitTarget ==
  /\ initAt = "connected"
  /\ \/ /\ \E t \in Targets \ Index :
             files' \in (SUBSET ({t} \cup {s \in Index : t = IndexEnv})) \ {{}}
        /\ initAt' = "files"
        /\ UNCHANGED <<rounds, wantCerts, file, loaded, entries, links, linkedNow, modifier, faults>>
     \/ Fault /\ InitExit
  /\ UNCHANGED <<xVars, published, linked, vault>>

\* SeedVaultFromFile: index data holds no certificates.
SeedVaultFromFile(t) == t \in written /\ ~(wantCerts /\ t \in Index)

\* SeedVault steps into the directory and takes the files that are there.
SeedVault ==
  /\ initAt = "files"
  /\ \E t \in files :
       /\ files' = files \ {t}
       /\ \/ SeedVaultFromFile(t) /\ file' = t /\ loaded' = seeds[t] /\ initAt' = "data"
          \/ ~SeedVaultFromFile(t) /\ UNCHANGED <<initAt, file, loaded>>
  /\ UNCHANGED <<rounds, wantCerts, entries, links, linkedNow, modifier, xVars, vaultVars>>

\* A secret that was not entered; certificates are not entered into a seed.
Placeholders(seed) == {q \in Parts \ CertData : q[2] = "super-secrets" /\ seed[q] = Default}

\* A directory that has certificates alone is seeded from the templates that vault
\* has, filled as trcx does, with the placeholders taken out of the text; without
\* the certificate files there is nothing to seed.
CertSeed(t) ==
  LET seed == [q \in Parts |-> IF q[1] \in Certs \cap published
                               THEN Parse(q[1], Stored(t, q[1], 0))[q[2]] ELSE Nothing]
  IN  [q \in Parts |-> IF q \in Placeholders(seed) THEN Nothing ELSE seed[q]]
SeedCertificates ==
  /\ initAt = "connected" /\ wantCerts /\ Certs \cap published # {}
  /\ \E t \in Targets \ Index :
       rounds[t] > 0 /\ file' = t /\ loaded' = CertSeed(t) /\ initAt' = "data"
  /\ UNCHANGED <<rounds, wantCerts, files, entries, links, linkedNow, modifier, xVars, vaultVars>>

\* The next file; nobody looks at the error of one that was not seeded.
FileDone ==
  /\ initAt' = "files" /\ file' = NoFile /\ loaded' = NoSeed
  /\ UNCHANGED <<rounds, wantCerts, files, entries, links, linkedNow, modifier>>

\* SeedVaultFromData refuses a file with placeholders, but not index data.
\* Mutant of Refused: a file with placeholders is taken.
TakeAll(t, seed) == FALSE
Refused(t, seed) == t \notin Index /\ Placeholders(seed) # {}

\* seedVaultWithCertsFromEntry: a certificate whose file is there and valid is
\* written, together with the values that describe it.
WithCertificates(valid) ==
  /\ entries' = {q \in Parts : q[1] \in valid /\ (q[2] = "values" \/ q \in CertData)}
  /\ loaded' = [q \in Parts |-> IF q \in CertData /\ q[1] \in valid
                                THEN <<file, rounds[file]>> ELSE loaded[q]]

\* A file that is refused, cannot be read, or for which no modifier can be made is
\* skipped.  Without -certs the entries that hold a certificate are skipped, with
\* -certs all but the certificates are; the links of the templates go the same way.
SeedVaultFromData ==
  /\ initAt = "data"
  /\ \/ Refused(file, loaded) /\ FileDone /\ UNCHANGED faults
     \/ Fault /\ FileDone
     \/ /\ ~Refused(file, loaded) /\ UNCHANGED faults
        /\ LET given == {q \in Parts : loaded[q] # Nothing}
               templates == {q[1] : q \in given}
           IN  IF wantCerts
               THEN /\ \E valid \in SUBSET (templates \cap Certs) :
                         (valid # {} => rounds[file] > 0) /\ WithCertificates(valid)
                    /\ links' = templates \cap Certs
               ELSE entries' = given \ CertData /\ links' = templates /\ UNCHANGED loaded
        /\ modifier' = Pointed(NewModifierFrom(modifier), file) /\ initAt' = "write"
        /\ UNCHANGED <<rounds, wantCerts, files, file, linkedNow>>
  /\ UNCHANGED <<xVars, published, linked, vault>>

\* WriteData for the links of a template, once in a process.
WriteLinks ==
  /\ initAt = "write"
  /\ \E p \in links :
       /\ links' = links \ {p} /\ linkedNow' = linkedNow \cup {p}
       /\ \/ p \in linkedNow /\ UNCHANGED <<linked, faults, modifier>>
          \/ p \notin linkedNow /\ linked' = linked \cup {p} /\ UNCHANGED <<faults, modifier>>
          \/ p \notin linkedNow /\ Fault /\ modifier' = NewOne /\ UNCHANGED linked
  /\ UNCHANGED <<rounds, initAt, wantCerts, files, file, loaded, entries, xVars, published, vault>>

\* WriteData for an entry: a write that fails is answered with another modifier and
\* not repeated; with -certs it is the modifier of that certificate only.
WriteData ==
  /\ initAt = "write"
  /\ \E q \in entries :
       LET path == PathOf(modifier)  b == <<path, q[1], q[2]>>
       IN  /\ entries' = entries \ {q}
           /\ \/ path \in Targets /\ Write(b, loaded[q]) /\ UNCHANGED modifier
              \/ /\ path \in Targets /\ WriteFails(b, loaded[q])
                 /\ modifier' = NewOne \/ (wantCerts /\ UNCHANGED modifier)
              \/ path \notin Targets /\ UNCHANGED <<vault, faults, modifier>>
  /\ UNCHANGED <<rounds, initAt, wantCerts, files, file, loaded, links, linkedNow,
                 xVars, published, linked>>

\* No modifier can be made either, and the process ends writing through none.
WriteExit == initAt = "write" /\ Fault /\ InitExit /\ UNCHANGED <<xVars, published, linked, vault>>

\* What the seed wants verified is read and the verdict written, and the file is
\* complete.
Verify ==
  /\ initAt = "write" /\ entries = {} /\ links = {}
  /\ initAt' = "seeded"
  /\ UNCHANGED <<rounds, initRun, xVars, vaultVars>>

NextFile == initAt = "seeded" /\ FileDone /\ UNCHANGED <<xVars, vaultVars>>

InitDone == initAt = "files" /\ files = {} /\ InitExit /\ UNCHANGED <<xVars, vaultVars>>

InitNext ==
  \/ InitStart \/ InitTarget \/ SeedVault \/ SeedCertificates \/ SeedVaultFromData
  \/ WriteLinks \/ WriteData \/ WriteExit \/ Verify \/ NextFile \/ InitDone
  \/ \E t \in Targets : EditSeed(t)
=============================================================================
