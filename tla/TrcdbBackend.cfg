SPECIFICATION Spec
CHECK_DEADLOCK FALSE
CONSTANTS
  Runs = {r1, r2}
  Flows = {f1, f2}
  Envs = {dev}
  dev = dev
  NoEnv = noEnv
  Capacity = 1
  Clients = {c1}
  Mount = mount
  Entries = {good, other, bad}
  BadEntry = bad
  NoEntry = noEntry
  EnvOrder <- Order
  QueueLength = 2
  MaxPushes = 3
  Sessions = {"start", "requests", "report", "ask"}
  StartEntries = {good, bad}
  StartPushes = 2
  StartQueue = 1
  Reporters = {f1}
  Tests = {t1}
  NoRow = noRow
  MaxReports = 2
  MaxBreaks = 1
  MaxPulls = 1
  Questions = {q1, q2, q3}
  Answerable = {q1, q2}
  NoQuestion = noQuestion
  EventLength = 1
INVARIANTS
  TypeOK
  StatesFirst
  LatestStored
  KeptInVault
  TurnGoesAround
PROPERTIES
  StartEnds
  PermitsPass
  QuestionsAnswered
