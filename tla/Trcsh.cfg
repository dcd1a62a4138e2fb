SPECIFICATION Spec
CONSTANTS
  TapRetries = 2
  Queries = 2
  CacheRoom = 3
  CacheLimit = 2
  Main = main
  Deployments = {d1}
  MaxVersion = 2
  Requests = 2
  Pipelines = 2
  Commands = 2
  MessageRoom = 2
  MaxPending = 3
INVARIANTS TypeOK FreshInput SecretsFirst OwnToken
CHECK_DEADLOCK FALSE
