SPECIFICATION Spec
CONSTANTS
  f1 = f1
  f2 = f2
  k1 = k1
  k2 = k2
  v1 = v1
  v2 = v2
  Flows = {f1}
  Keys = {k1}
  Values = {v1}
  NoRow = NoRow
  NilId = NilId
  None = None
  Writers = {w1}
  KeyColumns <- ThreeColumns
  Synced = {f1}
  ReadOnly = {}
  Pushes = {}
  PushesDeletes = {}
  TriggerOutcomes = {TRUE, FALSE}
  Errors = {"load", "record", "query", "path", "tenant", "seed", "delete", "push"}
  Overlap = TRUE
  BcastCopies = 1
  MaxCycles = 2
INVARIANTS RemovalIsExclusive TriggersComeBack
