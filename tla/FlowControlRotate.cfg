SPECIFICATION Spec
CONSTANTS
  Senders = {s1}
  Refreshers = {r1}
  NoMsg = NoMsg
  EditStates = {1, 3}
  EditModes = {"pullonce", "refreshDaily", "refreshEnd", "refreshHourly"}
  FirstRows <- Running
  MaxEdits = 1
  MaxNights = 1
  MaxCycles = 1
  Capacity = 1
INVARIANTS TypeOK InStep
PROPERTIES StatesRotate
CHECK_DEADLOCK FALSE
