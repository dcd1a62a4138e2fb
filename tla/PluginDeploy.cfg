SPECIFICATION FairSpec
CONSTANTS
  Envs = {dev, QA}
  Requests = {r1}
  Shas = {s1, s2}
  FirstShas = {s1, NoSha}
  NoSha = NoSha
  NotFound = NotFound
  Absent = Absent
  Torn = Torn
  Garbled = Garbled
  Errors = {"input", "config", "read", "instance", "download", "write", "mode", "record"}
  MaxCertify = 1
  MaxCrashes = 1
INVARIANTS TypeOK RecordIsCertified AnswerIsCurrent InstalledStays Coherent
PROPERTIES Answered TornIsFilled
CHECK_DEADLOCK FALSE
