CONSTANTS
  Hashes = {"h1", "junk"}
  Junk = {"junk"}
  Settings = {s1, s2}
  Callers = {c1, c2}
  Absent = Absent
  Revoked = Revoked
  Refused = Refused
  Failed = Failed
  NoHash = NoHash
  CacheSize = 1
  TTL = 1
  MaxLatency = 1
  MaxTime = 3
SPECIFICATION Spec
INVARIANTS
  TypeOK
  NoFalseRefusal
PROPERTIES
  AnswersAreRecent
CHECK_DEADLOCK FALSE
