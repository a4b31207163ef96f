CONSTANTS
  File = {f}
  Blob = {b1, b2}
  Opaque = {}
  Proc = {p}
  Scanner = {s}
  ScanOf <- MCScanOf
  Vouched = {}
  Absent = Absent
  None = None
  NoCache = NoCache
  DuringBuild = "anything"
  RefillsMovedFiles = FALSE
SPECIFICATION Spec
INVARIANT CacheHonest
CHECK_DEADLOCK FALSE
