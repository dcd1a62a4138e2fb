SPECIFICATION Spec
CHECK_DEADLOCK FALSE
CONSTANTS
  Targets = {"dev", "qa", "one", "two"}
  Index = {"one", "two"}
  IndexEnv = "dev"
  Templates = {"app", "cert"}
  Certs = {"cert"}
  CertKind = "super-secrets"
  Rounds = 1
  MaxVersions = 2
  MaxFaults = 1
  WriteRetries = 1
  DiffEnvs = 2
  Busy = 1
  MaxRuns = 4
  Names = {"agent", "admin"}
  PoliciesOf <- PolicySets
  Unstored = {"admin"}
  Approles = {"bamboo", "jobs"}
  Bamboo = "bamboo"
  Permits <- Permitted
  Filters = {{"agent", "admin"}, {"agent"}}
  MaxTokens = 3
  Sessions = {"new"}
  ScopeOf <- Scopes
  AtATime <- Together
INVARIANTS
  SeedWritten
