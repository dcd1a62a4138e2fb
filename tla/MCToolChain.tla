------------------------------ MODULE MCToolChain ------------------------------
\* A behaviour is a session of the tools that configure, or one of trcinit rotating
\* tokens, which shares no state with the others.  The tools configure a new vault
\* one after another; or one that was seeded before, two at a time, on two environments
\* and a section; or one for which the seed files are ready, on an environment and its
\* sections.
EXTENDS ToolChain, Rotation, Functions

CONSTANTS
  Sessions,
  ScopeOf,   \* the targets of a session
  AtATime    \* the tools that run at a time in it

VARIABLE session

vars == <<session, toolVars, rotationVars>>

PolicySets == [agent |-> {"apps", "agents"}, admin |-> {"apps"}]
Permitted  == [bamboo |-> {"agent"}, jobs |-> {"agent", "admin"}]
Scopes     == [new |-> {"dev", "qa", "one"}, together |-> {"dev", "qa", "one"},
               sections |-> {"dev", "one", "two"}]
Together   == [new |-> 1, together |-> 2, sections |-> 1]

\* What an operator entered for every target is in the seed files; or it is in vault,
\* and the files are gone.
EnteredSeeds ==
  [t \in Targets |-> [q \in Parts |-> IF q \in CertData THEN Default ELSE <<t, 1>>]]
EnteredInit(seeded) ==
  /\ runs = 1 /\ faults = 0
  /\ published \in {Templates, IF seeded THEN {} ELSE Templates}
  /\ linked = IF seeded THEN Templates ELSE {}
  /\ vault = [b \in Buckets |-> IF seeded /\ <<b[2], b[3]>> \notin CertData
                               THEN << <<b[1], 1>> >> ELSE <<>>]
  /\ seeds = IF seeded THEN [t \in Targets |-> NoSeed] ELSE EnteredSeeds
  /\ written = IF seeded THEN {} ELSE Targets
  /\ xAt = [t \in Targets |-> "idle"] /\ xVersion = [t \in Targets |-> 0]
  /\ working = [t \in Targets |-> {}] /\ open = [t \in Targets |-> {}]
  /\ results = {} /\ sections = [t \in Targets |-> {}] /\ diff = NoDiff /\ CInit
  /\ rounds = [t \in Targets |-> 1] /\ initAt = "idle" /\ wantCerts = FALSE
  /\ files = {} /\ file = NoFile /\ loaded = NoSeed
  /\ entries = {} /\ links = {} /\ linkedNow = {} /\ modifier = NewOne

\* The targets that a tool is at work on.
AtWork ==
  {t \in Targets : xAt[t] # "idle"} \cup files \cup ({file} \cap Targets) \cup Range(asked)

Init ==
  /\ session \in Sessions /\ RotationInit
  /\ \/ session \in {"new", "rotate"} /\ ToolInit
     \/ session = "together" /\ EnteredInit(TRUE)
     \/ session = "sections" /\ EnteredInit(FALSE)

Next ==
  \/ /\ session # "rotate" /\ ToolNext /\ UNCHANGED <<session, rotationVars>>
     /\ AtWork' \subseteq ScopeOf[session] /\ Cardinality(Running') <= AtATime[session]
  \/ session = "rotate" /\ RotationNext /\ UNCHANGED <<session, toolVars>>

Spec == Init /\ [][Next]_vars

TypeOK == ToolTypeOK /\ RotationTypeOK
=============================================================================
