SPECIFICATION FairSpec
CONSTANTS
  Senders = {s1}
  Refreshers = {}
  NoMsg = NoMsg
  EditStates = {1, 3}
  EditModes = {}
  FirstRows <- AnyState
  MaxEdits = 2
  MaxNights = 0
  MaxCycles = 1
  Capacity = 1
PROPERTIES ShutdownCompletes StartupCompletes
CHECK_DEADLOCK FALSE
