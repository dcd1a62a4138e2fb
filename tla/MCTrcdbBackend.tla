--------------------------- MODULE MCTrcdbBackend --------------------------
\* A behaviour is one of four sessions of the plugin: environments are configured and
\* their flows start; more requests than that come one upon another, before a flow
\* moves; flows that have started report it; or users ask about statistics, while no
\* flow reports.  Requests, reports and questions share no state here.
EXTENDS TrcdbBackend, AskFlume

CONSTANTS
  dev, Sessions,
  StartEntries, StartPushes, StartQueue  \* bounds of the first session
Order == <<dev>>

VARIABLE session

askVars == <<statVars, chatVars>>
vars == <<session, backendVars, askVars>>

WithinStart ==
  /\ pushes <= StartPushes /\ Len(queue) <= StartQueue
  /\ \A e \in Envs : stored[e] \in StartEntries \cup {NoEntry}

\* What a session does not use starts in one way.
Init ==
  /\ session \in Sessions /\ BackendInit /\ StatInit /\ ChatInit
  /\ session \in {"report", "ask"} => \A e \in Envs : stored[e] = NoEntry
  /\ session # "ask" => \A s \in Stats : saved[s] = NoRow
  /\ session = "start" => WithinStart
  /\ session # "ask" => manual

Requesting == FindVault \/ Take \/ (BackendNext /\ UNCHANGED <<boot, startupVars>>)
Asking == (Statistics /\ reports' = reports) \/ ChatNext

Next ==
  \/ session = "start" /\ BackendNext /\ WithinStart' /\ UNCHANGED <<session, askVars>>
  \/ session = "requests" /\ Requesting /\ UNCHANGED <<session, askVars>>
  \/ session = "report" /\ StatNext /\ UNCHANGED <<session, backendVars, chatVars>>
  \/ session = "ask" /\ Asking /\ UNCHANGED <<session, backendVars>>

Spec ==
  /\ Init /\ [][Next]_vars /\ BackendFairness
  /\ \A A \in {"client", "sender", "receiver"} : WF_askVars(session = "ask" /\ Goroutine(A))

TypeOK == BackendTypeOK /\ AskTypeOK
=============================================================================
