SPECIFICATION Spec
CONSTANTS
  f1 = f1
  f2 = f2
  k1 = k1
  k2 = k2
  v1 = v1
  v2 = v2
  Flows = {f1}
  Keys = {k1}
  Values = {v1, v2}
  NoRow = NoRow
  NilId = NilId
  None = None
  Writers = {w1}
  KeyColumns <- OneColumn
  Synced = {f1}
  ReadOnly = {}
  Pushes = {f1}
  PushesDeletes = {f1}
  TriggerOutcomes = {TRUE, FALSE}
  Errors = {"load", "record", "query", "path", "tenant", "seed", "delete", "push"}
  Overlap = FALSE
  BcastCopies = 2
  MaxCycles = 2
INVARIANTS TypeOK LossIsNamed RemoteFollowsVault CopiesAgree
PROPERTIES ImplementsWriteBehind
