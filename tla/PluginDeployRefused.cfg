SPECIFICATION Spec
CONSTANTS
  Envs = {dev}
  Requests = {r1}
  Shas = {s1, s2}
  FirstShas = {s1, NoSha}
  NoSha = NoSha
  NotFound = NotFound
  Absent = Absent
  Torn = Torn
  Garbled = Garbled
  Errors = {"download"}
  MaxCertify = 1
  MaxCrashes = 0
PROPERTIES AnswerIsCopied
CHECK_DEADLOCK FALSE
